---- MODULE Spec2Model ----
(***************************************************************************)
(* A model of the evaluators package of ai-eval-toolkit:                   *)
(*   evaluators/base.py   EvalResult, BaseEvaluator, EvaluationSuite       *)
(*   evaluators/basic.py  IncludesEvaluator, MatchEvaluator,               *)
(*                        JSONMatchEvaluator                               *)
(* Floats are modelled as exact rationals [num, den]; Python strings as    *)
(* sequences of one-character strings; JSON text as a sequence of lexemes. *)
(***************************************************************************)
EXTENDS Integers, Sequences, FiniteSets, TLC

VARIABLES
    evaluators,     \* EvaluationSuite.evaluators, in registration order
    suite_status,   \* "idle" | "returned" | "raised": how the last run_suite call ended
    suite_case,     \* the test_case argument of the last run_suite call
    suite_outs,     \* what each evaluator's evaluate does on that call's arguments
    suite_called,   \* indices of the evaluators whose evaluate was called, in call order
    results,        \* the mapping run_suite returned
    suite_evs,      \* the evaluators that call iterated over
    agg_status,     \* "idle" | "returned"
    agg_in,         \* the argument of the last aggregate_results call
    agg_out,        \* what it returned
    agg_prev,       \* pass flags and verdict of the aggregate_results call before it
    batch_status,   \* "idle" | "returned" | "raised": how the last batch_evaluate call ended
    batch_self,     \* the evaluator batch_evaluate was called on
    batch_args,     \* its completions and expected arguments
    batch_calls,    \* the arguments of the evaluate calls it made, in call order
    batch_out,      \* the list it returned
    batch_error,    \* the exception it raised
    ev_status,      \* "idle" | "returned" | "raised": how the last evaluate call ended
    ev_self,        \* the evaluator evaluate was called on
    ev_args,        \* its completion and expected arguments
    ev_out,         \* the result it returned or the exception it raised
    ev_reply,       \* what the external judge model did during that call
    ev_requests,    \* the requests that call sent to the external judge model
    objects,        \* the evaluator objects constructed so far
    ctor_status,    \* "idle" | "returned" | "raised": how the last constructor call ended
    ctor_args,      \* its class and arguments
    ctor_out,       \* the object it returned or the exception it raised
    ev_prev,        \* an earlier evaluate call the caller kept: evaluator, arguments, outcome
    dataset         \* the dataset dict the caller of DatasetCreator holds

suiteVars == <<evaluators, suite_status, suite_case, suite_outs, suite_called,
               results, suite_evs>>
aggVars == <<agg_status, agg_in, agg_out, agg_prev>>

batchVars == <<batch_status, batch_self, batch_args, batch_calls, batch_out, batch_error>>

evVars == <<ev_status, ev_self, ev_args, ev_out, ev_reply, ev_requests>>

ctorVars == <<objects, ctor_status, ctor_args, ctor_out>>

callerVars == <<ev_prev, dataset>>

vars == <<suiteVars, aggVars, batchVars, evVars, ctorVars, callerVars>>

----
(* Bounds *)

MaxEvaluators == 3
MaxBatch == 2
\* the most evaluator objects constructed in one behaviour
MaxObjects == 2
\* the most test cases added to one dataset
MaxCases == 3

----
(* Rationals standing for Python floats *)

RECURSIVE GCD(_, _)
GCD(a, b) == IF b = 0 THEN a ELSE GCD(b, a % b)

Abs(n) == IF n < 0 THEN -n ELSE n

\* the fraction n/d (d > 0) in lowest terms
Rat(n, d) ==
    LET g == GCD(Abs(n), d)
    IN  [num |-> n \div g, den |-> d \div g]

RLt(a, b) == a.num * b.den < b.num * a.den
RLe(a, b) == a.num * b.den <= b.num * a.den
RAdd(a, b) == Rat(a.num * b.den + b.num * a.den, a.den * b.den)
RDiv(a, n) == Rat(a.num, a.den * n)

----
(* EvalResult *)

\* A score is a bool, an int or a float; a float may be NaN.
BoolScore(b) == [kind |-> "bool", num |-> IF b THEN 1 ELSE 0, den |-> 1]
IntScore(n) == [kind |-> "int", num |-> n, den |-> 1]
FloatScore(n, d) == [kind |-> "float"] @@ Rat(n, d)
NaNScore == [kind |-> "nan", num |-> 0, den |-> 1]

NoMetadata == <<>>

EvalResult(score, passed, reasoning, metadata) ==
    [score |-> score, passed |-> passed, reasoning |-> reasoning, metadata |-> metadata]

\* Python's < on numbers: every comparison with NaN is false
PyLt(a, b) == a.kind # "nan" /\ b.kind # "nan" /\ RLt(a, b)

\* Python's two-argument min and max: the first argument unless the second is
\* strictly smaller (larger)
py_min(a, b) == IF PyLt(b, a) THEN b ELSE a
py_max(a, b) == IF PyLt(a, b) THEN b ELSE a

\* float(x) of an int or a float
py_float(s) == IF s.kind = "int" THEN FloatScore(s.num, s.den) ELSE s

\* a normalized_score that forgets the lower clamp
normalized_score_no_floor(r) ==
    IF r.score.kind = "bool"
    THEN IF r.score.num = 1 THEN FloatScore(1, 1) ELSE FloatScore(0, 1)
    ELSE py_min(FloatScore(1, 1), py_float(r.score))

normalized_score(r) ==
    IF r.score.kind = "bool"
    THEN IF r.score.num = 1 THEN FloatScore(1, 1) ELSE FloatScore(0, 1)
    ELSE py_max(FloatScore(0, 1), py_min(FloatScore(1, 1), py_float(r.score)))

\* the two ways a call of evaluate ends: it returns a result or raises an exception
Returns(r) == [raises |-> FALSE, msg |-> "", result |-> r]
Raises(msg) ==
    [raises |-> TRUE, msg |-> msg,
     result |-> EvalResult(FloatScore(0, 1), FALSE, "", NoMetadata)]

None == "None"

----
(* Python strings, as sequences of characters *)

lower_char(c) == CASE c = "A" -> "a" [] c = "B" -> "b" [] OTHER -> c

lower(s) == [i \in 1..Len(s) |-> lower_char(s[i])]

RECURSIVE lstrip(_)
lstrip(s) == IF s # <<>> /\ Head(s) = " " THEN lstrip(Tail(s)) ELSE s

RECURSIVE rstrip(_)
rstrip(s) ==
    IF s # <<>> /\ s[Len(s)] = " " THEN rstrip(SubSeq(s, 1, Len(s) - 1)) ELSE s

strip(s) == rstrip(lstrip(s))

\* Python's `sub in s` on strings
str_contains(sub, s) ==
    \E i \in 0..(Len(s) - Len(sub)) : SubSeq(s, i + 1, i + Len(sub)) = sub

\* an expected argument is a str or a list of str
ExpStr(s) == [t |-> "str", s |-> s, l |-> <<>>]
ExpList(l) == [t |-> "list", s |-> <<>>, l |-> l]

----
(* MatchEvaluator and IncludesEvaluator *)

MatchEvaluator(case_sensitive) ==
    [name |-> "match", eval_type |-> "match", case_sensitive |-> case_sensitive]

IncludesEvaluator(case_sensitive) ==
    [name |-> "includes", eval_type |-> "includes", case_sensitive |-> case_sensitive]

\* a MatchEvaluator that folds case whatever case_sensitive says
match_evaluate_always_folds(self, completion, expected) ==
    LET c == strip(lower(completion))
        e == strip(lower(expected.s))
        passed == c = e
    IN  Returns(EvalResult(IF passed THEN FloatScore(1, 1) ELSE FloatScore(0, 1),
                           passed,
                           IF ~passed THEN "Expected, got" ELSE "Exact match",
                           [case_sensitive |-> self.case_sensitive,
                            expected_length |-> Len(e),
                            completion_length |-> Len(c)]))

\* expected is a str here
match_evaluate(self, completion, expected) ==
    LET c == IF ~self.case_sensitive THEN strip(lower(completion)) ELSE strip(completion)
        e == IF ~self.case_sensitive THEN strip(lower(expected.s)) ELSE strip(expected.s)
        passed == c = e
    IN  Returns(EvalResult(IF passed THEN FloatScore(1, 1) ELSE FloatScore(0, 1),
                           passed,
                           IF ~passed THEN "Expected, got" ELSE "Exact match",
                           [case_sensitive |-> self.case_sensitive,
                            expected_length |-> Len(e),
                            completion_length |-> Len(c)]))

\* an IncludesEvaluator that passes as soon as one item is found
includes_evaluate_any(self, completion, expected) ==
    LET items == IF expected.t = "str" THEN <<expected.s>> ELSE expected.l
        completion_text == IF self.case_sensitive THEN completion ELSE lower(completion)
        Found(item) ==
            str_contains(IF self.case_sensitive THEN item ELSE lower(item), completion_text)
        found_items == SelectSeq(items, Found)
        InFound(item) == \E k \in 1..Len(found_items) : found_items[k] = item
        NotInFound(item) == ~InFound(item)
    IN  IF Len(items) = 0
        THEN Raises("ZeroDivisionError: division by zero")
        ELSE LET score == FloatScore(Len(found_items), Len(items))
             IN  Returns(EvalResult(score, Len(found_items) > 0,
                                    "Found required items",
                                    [expected_items |-> items,
                                     found_items |-> found_items,
                                     missing_items |-> SelectSeq(items, NotInFound)]))

includes_evaluate(self, completion, expected) ==
    LET items == IF expected.t = "str" THEN <<expected.s>> ELSE expected.l
        completion_text == IF self.case_sensitive THEN completion ELSE lower(completion)
        Found(item) ==
            str_contains(IF self.case_sensitive THEN item ELSE lower(item), completion_text)
        found_items == SelectSeq(items, Found)
        InFound(item) == \E k \in 1..Len(found_items) : found_items[k] = item
        NotInFound(item) == ~InFound(item)
    IN  IF Len(items) = 0
        THEN Raises("ZeroDivisionError: division by zero")
        ELSE LET score == FloatScore(Len(found_items), Len(items))
             IN  Returns(EvalResult(score, score = FloatScore(1, 1),
                                    "Found required items",
                                    [expected_items |-> items,
                                     found_items |-> found_items,
                                     missing_items |-> SelectSeq(items, NotInFound)]))

----
(* FuzzyMatchEvaluator *)

FuzzyMatchEvaluator(threshold) ==
    [name |-> "fuzzy_match", eval_type |-> "fuzzy_match", threshold |-> threshold]

\* difflib.SequenceMatcher: the matching blocks of a and b. The longest common
\* block is taken (the earliest in a, then the earliest in b, among the longest),
\* then the pieces to its left and to its right are matched the same way.
RECURSIVE matching_size(_, _)
matching_size(a, b) ==
    LET blocks ==
            {m \in (1..Len(a)) \X (1..Len(b)) \X (1..Len(a)) :
                /\ m[1] + m[3] - 1 <= Len(a)
                /\ m[2] + m[3] - 1 <= Len(b)
                /\ SubSeq(a, m[1], m[1] + m[3] - 1) = SubSeq(b, m[2], m[2] + m[3] - 1)}
        Better(m, o) ==
            \/ m[3] > o[3]
            \/ m[3] = o[3] /\ m[1] < o[1]
            \/ m[3] = o[3] /\ m[1] = o[1] /\ m[2] <= o[2]
    IN  IF blocks = {} THEN 0
        ELSE LET best == CHOOSE m \in blocks : \A o \in blocks : Better(m, o)
             IN  best[3]
                   + matching_size(SubSeq(a, 1, best[1] - 1), SubSeq(b, 1, best[2] - 1))
                   + matching_size(SubSeq(a, best[1] + best[3], Len(a)),
                                   SubSeq(b, best[2] + best[3], Len(b)))

\* utils.intr: int(round(n / d)), Python's round to the nearest, halves to even
intr(n, d) ==
    LET q == n \div d
        rem == n % d
    IN  IF 2 * rem > d \/ (2 * rem = d /\ q % 2 = 1) THEN q + 1 ELSE q

\* fuzz.ratio: 100 for equal strings, 0 when one is empty, else
\* intr(100 * SequenceMatcher(None, s1, s2).ratio()), the ratio being 2.0 * M / T
ratio(s1, s2) ==
    IF s1 = s2 THEN 100
    ELSE IF Len(s1) = 0 \/ Len(s2) = 0 THEN 0
    ELSE intr(100 * 2 * matching_size(s1, s2), Len(s1) + Len(s2))

\* a FuzzyMatchEvaluator whose threshold is exclusive
fuzzy_evaluate_strict(self, completion, expected) ==
    LET similarity == ratio(strip(completion), strip(expected.s))
        passed == RLt(self.threshold, Rat(similarity, 1))
    IN  Returns(EvalResult(FloatScore(similarity, 100), passed,
                           "Similarity (threshold)",
                           [similarity_score |-> similarity,
                            threshold |-> self.threshold]))

\* expected is a str here; partial_ratio and token_sort_ratio are two more
\* library values stored in the metadata, which nothing reads back
fuzzy_evaluate(self, completion, expected) ==
    LET similarity == ratio(strip(completion), strip(expected.s))
        passed == RLe(self.threshold, Rat(similarity, 1))
    IN  Returns(EvalResult(FloatScore(similarity, 100), passed,
                           "Similarity (threshold)",
                           [similarity_score |-> similarity,
                            threshold |-> self.threshold]))

----
(* RegexEvaluator *)

\* a pattern is a sequence of the characters a, b, . and *; the flags are 0 or
\* re.IGNORECASE
IGNORECASE == 2

\* re.compile(pattern, flags): the items of the pattern, an atom each with or
\* without a star, or re.error for a star that has nothing to repeat or that
\* repeats a star
RECURSIVE compile_items(_, _, _)
compile_items(pattern, i, items) ==
    IF i > Len(pattern)
    THEN [ok |-> TRUE, msg |-> "", items |-> items]
    ELSE IF pattern[i] = "*"
    THEN IF items = <<>>
         THEN [ok |-> FALSE, msg |-> "nothing to repeat", items |-> <<>>]
         ELSE IF items[Len(items)].star
         THEN [ok |-> FALSE, msg |-> "multiple repeat", items |-> <<>>]
         ELSE compile_items(pattern, i + 1,
                            [items EXCEPT ![Len(items)].star = TRUE])
    ELSE compile_items(pattern, i + 1, Append(items, [atom |-> pattern[i], star |-> FALSE]))

re_compile(pattern, flags) == compile_items(pattern, 1, <<>>)

\* one atom against one character
atom_matches(atom, c, flags) ==
    \/ atom = "."
    \/ atom = c
    \/ flags = IGNORECASE /\ lower_char(atom) = lower_char(c)

\* the number of characters from position i + 1 on that the atom matches in a row
RECURSIVE run_length(_, _, _, _)
run_length(atom, s, i, flags) ==
    IF i < Len(s) /\ atom_matches(atom, s[i + 1], flags)
    THEN 1 + run_length(atom, s, i + 1, flags)
    ELSE 0

\* the end of the match of items k.. that starts after i characters, -1 for no
\* match; a star takes as many characters as the rest of the pattern allows
RECURSIVE match_here(_, _, _, _, _)
match_here(items, k, s, i, flags) ==
    IF k > Len(items) THEN i
    ELSE IF ~items[k].star
    THEN IF i < Len(s) /\ atom_matches(items[k].atom, s[i + 1], flags)
         THEN match_here(items, k + 1, s, i + 1, flags)
         ELSE -1
    ELSE LET longest == run_length(items[k].atom, s, i, flags)
             taken == {j \in 0..longest : match_here(items, k + 1, s, i + j, flags) # -1}
         IN  IF taken = {} THEN -1
             ELSE match_here(items, k + 1, s,
                             i + (CHOOSE j \in taken : \A o \in taken : o <= j), flags)

\* regex.search(completion): the leftmost match, or None
regex_search(items, flags, s) ==
    LET starts == {i \in 0..Len(s) : match_here(items, 1, s, i, flags) # -1}
    IN  IF starts = {} THEN [found |-> FALSE, start |-> 0, end |-> 0]
        ELSE LET start == CHOOSE i \in starts : \A o \in starts : i <= o
             IN  [found |-> TRUE, start |-> start,
                  end |-> match_here(items, 1, s, start, flags)]

\* the object RegexEvaluator.__init__ leaves behind
RegexObject(pattern, flags, items) ==
    [name |-> "regex", eval_type |-> "custom", pattern |-> pattern, flags |-> flags,
     regex |-> items]

\* what a constructor call does: it returns an object or raises
Constructed(obj) == [raises |-> FALSE, msg |-> "", obj |-> obj]
ConstructionFails(msg) ==
    [raises |-> TRUE, msg |-> msg,
     obj |-> [name |-> "", eval_type |-> "", case_sensitive |-> FALSE]]

\* a RegexEvaluator that keeps the pattern and compiles nothing
RegexEvaluator_lazy(pattern, flags) ==
    Constructed(RegexObject(pattern, flags, re_compile(pattern, flags).items))

\* RegexEvaluator.__init__
RegexEvaluator(pattern, flags) ==
    LET compiled == re_compile(pattern, flags)
    IN  IF ~compiled.ok
        THEN ConstructionFails("re.error: " \o compiled.msg)
        ELSE Constructed(RegexObject(pattern, flags, compiled.items))

\* RegexEvaluator.evaluate; the pattern language has no groups, so
\* match.groups() is the empty tuple
regex_evaluate(self, completion, expected) ==
    LET match == regex_search(self.regex, self.flags, completion)
        passed == match.found
    IN  Returns(EvalResult(IF passed THEN FloatScore(1, 1) ELSE FloatScore(0, 1),
                           passed,
                           IF passed THEN "Pattern found" ELSE "Pattern not found",
                           IF match.found
                           THEN [pattern |-> self.pattern,
                                 match_start |-> match.start,
                                 match_end |-> match.end,
                                 matched_text |-> SubSeq(completion, match.start + 1, match.end),
                                 groups |-> <<>>]
                           ELSE [pattern |-> self.pattern]))

----
(* JSON values and json.loads *)

\* a parsed JSON value: None, bool, int or float (n / d), str, list or dict (keys
\* in insertion order)
JNull ==
    [t |-> "null", n |-> 0, d |-> 1, s |-> <<>>, items |-> <<>>, keys |-> <<>>,
     members |-> <<>>]
JBool(b) == [JNull EXCEPT !.t = "bool", !.n = IF b THEN 1 ELSE 0]
JNum(n) == [JNull EXCEPT !.t = "num", !.n = n]
JFloat(n, d) == [JNull EXCEPT !.t = "num", !.n = Rat(n, d).num, !.d = Rat(n, d).den]
JStr(s) == [JNull EXCEPT !.t = "str", !.s = s]
JArr(items) == [JNull EXCEPT !.t = "arr", !.items = items]
JObj(keys, members) == [JNull EXCEPT !.t = "obj", !.keys = keys, !.members = members]

\* a JSON text is a sequence of lexemes
NumLexemes == {"0", "1", "2", "3", "4", "5", "7", "2.9"}
NumOf(l) ==
    ("0" :> JNum(0)
       @@ "1" :> JNum(1)
       @@ "2" :> JNum(2)
       @@ "3" :> JNum(3)
       @@ "4" :> JNum(4)
       @@ "5" :> JNum(5)
       @@ "7" :> JNum(7)
       @@ "2.9" :> JFloat(29, 10))[l]

\* the field names of the judge responses, as Python strings
Key ==
    [ overall_score |->
          <<"o", "v", "e", "r", "a", "l", "l", "_", "s", "c", "o", "r", "e">>,
      issues |->
          <<"i", "s", "s", "u", "e", "s">>,
      winner |->
          <<"w", "i", "n", "n", "e", "r">>,
      response_a_score |->
          <<"r", "e", "s", "p", "o", "n", "s", "e", "_", "a", "_", "s", "c", "o", "r", "e">>,
      response_b_score |->
          <<"r", "e", "s", "p", "o", "n", "s", "e", "_", "b", "_", "s", "c", "o", "r", "e">>,
      confidence |->
          <<"c", "o", "n", "f", "i", "d", "e", "n", "c", "e">>,
      reasoning |->
          <<"r", "e", "a", "s", "o", "n", "i", "n", "g">>,
      summary |->
          <<"s", "u", "m", "m", "a", "r", "y">>,
      scores |->
          <<"s", "c", "o", "r", "e", "s">>,
      accuracy_score |->
          <<"a", "c", "c", "u", "r", "a", "c", "y", "_", "s", "c", "o", "r", "e">>,
      completeness_score |->
          <<"c", "o", "m", "p", "l", "e", "t", "e", "n", "e", "s", "s", "_", "s", "c", "o", "r", "e">>,
      hallucination_score |->
          <<"h", "a", "l", "l", "u", "c", "i", "n", "a", "t", "i", "o", "n", "_", "s", "c", "o", "r", "e">>,
      logic_score |->
          <<"l", "o", "g", "i", "c", "_", "s", "c", "o", "r", "e">>,
      clarity_score |->
          <<"c", "l", "a", "r", "i", "t", "y", "_", "s", "c", "o", "r", "e">>,
      strengths |->
          <<"s", "t", "r", "e", "n", "g", "t", "h", "s">>,
      weaknesses |->
          <<"w", "e", "a", "k", "n", "e", "s", "s", "e", "s">> ]

StrLexemes ==
    {"\"a\"", "\"b\"", "\"A\"", "\"B\"", "\"Tie\"", "\"overall_score\"", "\"issues\"",
     "\"winner\"", "\"response_a_score\"", "\"response_b_score\"", "\"confidence\"",
     "\"reasoning\"", "\"summary\""}
StrOf(l) ==
    ("\"a\"" :> <<"a">>
       @@ "\"b\"" :> <<"b">>
       @@ "\"A\"" :> <<"A">>
       @@ "\"B\"" :> <<"B">>
       @@ "\"Tie\"" :> <<"T", "i", "e">>
       @@ "\"overall_score\"" :> 
            <<"o", "v", "e", "r", "a", "l", "l", "_", "s", "c", "o", "r", "e">>
       @@ "\"issues\"" :> 
            <<"i", "s", "s", "u", "e", "s">>
       @@ "\"winner\"" :> 
            <<"w", "i", "n", "n", "e", "r">>
       @@ "\"response_a_score\"" :> 
            <<"r", "e", "s", "p", "o", "n", "s", "e", "_", "a", "_", "s", "c", "o", "r", "e">>
       @@ "\"response_b_score\"" :> 
            <<"r", "e", "s", "p", "o", "n", "s", "e", "_", "b", "_", "s", "c", "o", "r", "e">>
       @@ "\"confidence\"" :> 
            <<"c", "o", "n", "f", "i", "d", "e", "n", "c", "e">>
       @@ "\"reasoning\"" :> 
            <<"r", "e", "a", "s", "o", "n", "i", "n", "g">>
       @@ "\"summary\"" :> 
            <<"s", "u", "m", "m", "a", "r", "y">>)[l]

ParseOk(v, pos) == [ok |-> TRUE, val |-> v, pos |-> pos, msg |-> ""]
ParseFail(msg) == [ok |-> FALSE, val |-> JNull, pos |-> 0, msg |-> msg]

\* the lexeme at position i, "" at the end of the text
At(toks, i) == IF i <= Len(toks) THEN toks[i] ELSE ""

RECURSIVE parse_value(_, _)
RECURSIVE parse_elements(_, _, _)
RECURSIVE parse_members(_, _, _, _)

parse_value(toks, i) ==
    LET t == At(toks, i)
    IN  CASE t = "null" -> ParseOk(JNull, i + 1)
          [] t = "true" -> ParseOk(JBool(TRUE), i + 1)
          [] t = "false" -> ParseOk(JBool(FALSE), i + 1)
          [] t \in NumLexemes -> ParseOk(NumOf(t), i + 1)
          [] t \in StrLexemes -> ParseOk(JStr(StrOf(t)), i + 1)
          [] t = "[" -> IF At(toks, i + 1) = "]"
                        THEN ParseOk(JArr(<<>>), i + 2)
                        ELSE parse_elements(toks, i + 1, <<>>)
          [] t = "{" -> IF At(toks, i + 1) = "}"
                        THEN ParseOk(JObj(<<>>, <<>>), i + 2)
                        ELSE parse_members(toks, i + 1, <<>>, <<>>)
          [] OTHER -> ParseFail("Expecting value")

parse_elements(toks, i, acc) ==
    LET v == parse_value(toks, i)
    IN  IF ~v.ok THEN v
        ELSE CASE At(toks, v.pos) = "," -> parse_elements(toks, v.pos + 1, Append(acc, v.val))
               [] At(toks, v.pos) = "]" -> ParseOk(JArr(Append(acc, v.val)), v.pos + 1)
               [] OTHER -> ParseFail("Expecting ',' delimiter")

\* a repeated key keeps its first position and takes the last value
parse_members(toks, i, keys, members) ==
    IF At(toks, i) \notin StrLexemes
    THEN ParseFail("Expecting property name enclosed in double quotes")
    ELSE IF At(toks, i + 1) # ":"
    THEN ParseFail("Expecting ':' delimiter")
    ELSE LET k == StrOf(toks[i])
             v == parse_value(toks, i + 2)
             keys2 == IF k \in DOMAIN members THEN keys ELSE Append(keys, k)
             members2 == [x \in DOMAIN members \cup {k} |-> IF x = k THEN v.val ELSE members[x]]
         IN  IF ~v.ok THEN v
             ELSE CASE At(toks, v.pos) = "," -> parse_members(toks, v.pos + 1, keys2, members2)
                    [] At(toks, v.pos) = "}" -> ParseOk(JObj(keys2, members2), v.pos + 1)
                    [] OTHER -> ParseFail("Expecting ',' delimiter")

\* json.loads: a value, then the end of the text; otherwise JSONDecodeError
json_loads(toks) ==
    LET r == parse_value(toks, 1)
    IN  IF ~r.ok THEN r
        ELSE IF r.pos <= Len(toks) THEN ParseFail("Extra data")
        ELSE r

\* Python's == on parsed values: True == 1, dicts compare without order
RECURSIVE py_eq(_, _)
py_eq(a, b) ==
    CASE a.t \in {"num", "bool"} /\ b.t \in {"num", "bool"} -> a.n * b.d = b.n * a.d
      [] a.t = "str" /\ b.t = "str" -> a.s = b.s
      [] a.t = "null" /\ b.t = "null" -> TRUE
      [] a.t = "arr" /\ b.t = "arr" ->
            /\ Len(a.items) = Len(b.items)
            /\ \A i \in 1..Len(a.items) : py_eq(a.items[i], b.items[i])
      [] a.t = "obj" /\ b.t = "obj" ->
            /\ DOMAIN a.members = DOMAIN b.members
            /\ \A k \in DOMAIN a.members : py_eq(a.members[k], b.members[k])
      [] OTHER -> FALSE

\* the values `key in v` and len(v) accept; on the others they raise TypeError
py_iterable(v) == v.t \in {"obj", "arr", "str"}

\* `key in v` for a str key
py_in(key, v) ==
    CASE v.t = "obj" -> key \in DOMAIN v.members
      [] v.t = "arr" -> \E i \in 1..Len(v.items) : py_eq(v.items[i], JStr(key))
      [] v.t = "str" -> str_contains(key, v.s)

py_len(v) ==
    CASE v.t = "obj" -> Len(v.keys)
      [] v.t = "arr" -> Len(v.items)
      [] v.t = "str" -> Len(v.s)

----
(* JSONMatchEvaluator *)

JSONMatchEvaluator(exact_match, required_keys) ==
    [name |-> "json_match", eval_type |-> "json_match",
     exact_match |-> exact_match, required_keys |-> required_keys]

\* the expected argument is JSON text or a dict
ExpText(toks) == [t |-> "str", text |-> toks, data |-> JNull]
ExpDict(v) == [t |-> "dict", text |-> <<>>, data |-> v]

\* the final EvalResult(...): its metadata calls .keys() on both values
json_result(self, completion_data, expected_data, score, passed, reasoning, missing_keys) ==
    IF completion_data.t # "obj" \/ expected_data.t # "obj"
    THEN Raises("AttributeError: object has no attribute 'keys'")
    ELSE Returns(EvalResult(score, passed, reasoning,
                            [completion_keys |-> completion_data.keys,
                             expected_keys |-> expected_data.keys,
                             missing_required_keys |-> missing_keys,
                             exact_match |-> self.exact_match]))

\* json_compare with three switches: whether the partial-mode denominator counts
\* the required keys, whether exact mode looks at the missing keys, and whether
\* the partial-mode numerator counts the required keys that are present
json_compare_variant(self, completion_data, expected_data, count_required, exact_checks_missing,
                     count_present) ==
    LET Missing(key) == ~py_in(key, completion_data)
        missing_keys == SelectSeq(self.required_keys, Missing)
        total_keys == py_len(expected_data)
                        + (IF count_required THEN Len(self.required_keys) ELSE 0)
        matching_keys ==
            Cardinality({key \in DOMAIN expected_data.members :
                            /\ py_in(key, completion_data)
                            /\ py_eq(completion_data.members[key], expected_data.members[key])})
        required_keys_present == Len(self.required_keys) - Len(missing_keys)
        score == FloatScore(matching_keys
                              + (IF count_present THEN required_keys_present ELSE 0),
                            total_keys)
    IN  IF self.required_keys # <<>> /\ ~py_iterable(completion_data)
        THEN Raises("TypeError: argument is not iterable")
        ELSE IF self.exact_match
        THEN LET passed == /\ py_eq(completion_data, expected_data)
                           /\ (exact_checks_missing => Len(missing_keys) = 0)
             IN  json_result(self, completion_data, expected_data,
                             IF passed THEN FloatScore(1, 1) ELSE FloatScore(0, 1), passed,
                             IF passed THEN "Exact JSON match" ELSE "JSON structures differ",
                             missing_keys)
        ELSE IF ~py_iterable(expected_data)
        THEN Raises("TypeError: object has no len()")
        ELSE IF total_keys = 0
        THEN json_result(self, completion_data, expected_data, FloatScore(1, 1),
                         Len(missing_keys) = 0, "JSON similarity", missing_keys)
        ELSE IF expected_data.t # "obj"
        THEN Raises("AttributeError: object has no attribute 'items'")
        ELSE IF expected_data.keys # <<>> /\ ~py_iterable(completion_data)
        THEN Raises("TypeError: argument is not iterable")
        ELSE IF completion_data.t # "obj"
                /\ \E key \in DOMAIN expected_data.members : py_in(key, completion_data)
        THEN Raises("TypeError: indices must be integers")
        ELSE json_result(self, completion_data, expected_data, score,
                         RLe(Rat(4, 5), score) /\ Len(missing_keys) = 0,
                         "JSON similarity", missing_keys)

\* a partial mode that divides by the number of expected keys only
json_compare_expected_total(self, completion_data, expected_data) ==
    json_compare_variant(self, completion_data, expected_data, FALSE, TRUE, TRUE)

\* an exact mode that forgets the required keys
json_compare_exact_unrequired(self, completion_data, expected_data) ==
    json_compare_variant(self, completion_data, expected_data, TRUE, FALSE, TRUE)

\* a partial mode whose score leaves out the required keys that are present
json_compare_unrewarded_required(self, completion_data, expected_data) ==
    json_compare_variant(self, completion_data, expected_data, TRUE, TRUE, FALSE)

\* lines 135-173, after both values were parsed
json_compare(self, completion_data, expected_data) ==
    LET Missing(key) == ~py_in(key, completion_data)
        missing_keys == SelectSeq(self.required_keys, Missing)
        total_keys == py_len(expected_data) + Len(self.required_keys)
        matching_keys ==
            Cardinality({key \in DOMAIN expected_data.members :
                            /\ py_in(key, completion_data)
                            /\ py_eq(completion_data.members[key], expected_data.members[key])})
        required_keys_present == Len(self.required_keys) - Len(missing_keys)
        score == FloatScore(matching_keys + required_keys_present, total_keys)
    IN  IF self.required_keys # <<>> /\ ~py_iterable(completion_data)
        THEN Raises("TypeError: argument is not iterable")
        ELSE IF self.exact_match
        THEN LET passed == py_eq(completion_data, expected_data) /\ Len(missing_keys) = 0
             IN  json_result(self, completion_data, expected_data,
                             IF passed THEN FloatScore(1, 1) ELSE FloatScore(0, 1), passed,
                             IF passed THEN "Exact JSON match" ELSE "JSON structures differ",
                             missing_keys)
        ELSE IF ~py_iterable(expected_data)
        THEN Raises("TypeError: object has no len()")
        ELSE IF total_keys = 0
        THEN json_result(self, completion_data, expected_data, FloatScore(1, 1),
                         Len(missing_keys) = 0, "JSON similarity", missing_keys)
        ELSE IF expected_data.t # "obj"
        THEN Raises("AttributeError: object has no attribute 'items'")
        ELSE IF expected_data.keys # <<>> /\ ~py_iterable(completion_data)
        THEN Raises("TypeError: argument is not iterable")
        ELSE IF completion_data.t # "obj"
                /\ \E key \in DOMAIN expected_data.members : py_in(key, completion_data)
        THEN Raises("TypeError: indices must be integers")
        ELSE json_result(self, completion_data, expected_data, score,
                         RLe(Rat(4, 5), score) /\ Len(missing_keys) = 0,
                         "JSON similarity", missing_keys)

ParseFailure(reasoning, key, msg) ==
    Returns(EvalResult(FloatScore(0, 1), FALSE, reasoning \o msg, [k \in {key} |-> msg]))

\* a JSONMatchEvaluator.evaluate that parses expected before the completion
json_match_evaluate_expected_first(self, completion, expected) ==
    LET c == json_loads(completion)
        e == IF expected.t = "str" THEN json_loads(expected.text) ELSE ParseOk(expected.data, 0)
    IN  IF ~e.ok
        THEN ParseFailure("Invalid JSON in expected: ", "expected_parse_error", e.msg)
        ELSE IF ~c.ok
        THEN ParseFailure("Invalid JSON in completion: ", "parse_error", c.msg)
        ELSE json_compare(self, c.val, e.val)

json_match_evaluate(self, completion, expected) ==
    LET c == json_loads(completion)
        e == IF expected.t = "str" THEN json_loads(expected.text) ELSE ParseOk(expected.data, 0)
    IN  IF ~c.ok
        THEN ParseFailure("Invalid JSON in completion: ", "parse_error", c.msg)
        ELSE IF ~e.ok
        THEN ParseFailure("Invalid JSON in expected: ", "expected_parse_error", e.msg)
        ELSE json_compare(self, c.val, e.val)

----
(* The judge evaluators: ModelGradedEvaluator and its four subclasses *)

\* the object ModelGradedEvaluator.__init__ leaves behind; cls is the subclass,
\* criteria the extra argument of CriteriaEvaluator
JudgeObject(cls, model, provider) ==
    [name |-> "model_graded", eval_type |-> "model_graded", cls |-> cls,
     model |-> model, provider |-> provider,
     criteria |-> IF cls = "CriteriaEvaluator" THEN [accuracy |-> "is accurate"] ELSE <<>>]

\* ModelGradedEvaluator.__init__, reached through super().__init__ by the
\* subclasses; api_key tells whether the provider's environment variable is set
\* (the OpenAI client refuses to be built without a key)
ModelGradedEvaluator(cls, model, provider, api_key) ==
    IF provider = "openai"
    THEN IF api_key THEN Constructed(JudgeObject(cls, model, provider))
         ELSE ConstructionFails("OpenAIError: The api_key client option must be set")
    ELSE IF provider = "anthropic"
    THEN Constructed(JudgeObject(cls, model, provider))
    ELSE ConstructionFails("ValueError: Unsupported provider: " \o provider)

\* what the external judge model does with one request: the client raises, or
\* the response carries a text, or it carries no text (None)
ReplyError(msg) == [kind |-> "error", msg |-> msg, text |-> <<>>]
ReplyText(toks) == [kind |-> "text", msg |-> "", text |-> toks]
ReplyNone == [kind |-> "none", msg |-> "", text |-> <<>>]

\* _call_model: one request to the provider's client; for any other provider
\* the method falls off its end and returns None
call_model(self, prompt, reply) ==
    IF self.provider = "openai"
    THEN [reply |-> reply,
          requests |-> << [provider |-> "openai", model |-> self.model,
                           temperature |-> 0, prompt |-> prompt] >>]
    ELSE IF self.provider = "anthropic"
    THEN [reply |-> reply,
          requests |-> << [provider |-> "anthropic", model |-> self.model,
                           max_tokens |-> 1000, temperature |-> 0,
                           prompt |-> prompt] >>]
    ELSE [reply |-> ReplyNone, requests |-> <<>>]

\* d.get(key): None for a missing key, whatever default the caller names
json_get_none(data, key, default) ==
    IF key \in DOMAIN data.members THEN data.members[key] ELSE JNull

\* d.get(key, default) on a dict
json_get(data, key, default) ==
    IF key \in DOMAIN data.members THEN data.members[key] ELSE default

\* the characters of a str as one string
RECURSIVE join(_)
join(s) == IF s = <<>> THEN "" ELSE Head(s) \o join(Tail(s))

py_number(v) == v.t \in {"num", "bool"}

\* the except branch of the four evaluate methods
JudgeFailure(self, msg) ==
    LET prefix ==
            CASE self.cls = "CriteriaEvaluator" -> "Model evaluation failed: "
              [] self.cls = "FactualConsistencyEvaluator" ->
                     "Factual consistency evaluation failed: "
              [] self.cls = "ChainOfThoughtEvaluator" -> "Chain-of-thought evaluation failed: "
              [] self.cls = "HeadToHeadEvaluator" -> "Head-to-head evaluation failed: "
    IN  Returns(EvalResult(FloatScore(0, 1), FALSE, prefix \o msg, [error |-> msg]))

\* EvalResult(...) with a reasoning taken from the response: the field is
\* Optional[str], pydantic refuses another type
judged_result(score, passed, result_data, key, default, metadata) ==
    LET reasoning == json_get(result_data, key, JNull)
    IN  IF key \notin DOMAIN result_data.members
        THEN Returns(EvalResult(score, passed, default, metadata))
        ELSE IF reasoning.t = "str"
        THEN Returns(EvalResult(score, passed, join(reasoning.s), metadata))
        ELSE IF reasoning.t = "null"
        THEN Returns(EvalResult(score, passed, None, metadata))
        ELSE Raises("ValidationError: reasoning: Input should be a valid string")

\* a pass mark of 4 out of 5
PassMark_four == Rat(4, 5)

\* overall_score >= 0.6
PassMark == Rat(3, 5)

\* the try body of CriteriaEvaluator, FactualConsistencyEvaluator and
\* ChainOfThoughtEvaluator after json.loads
rubric_body(self, result_data, completion, expected) ==
    IF result_data.t # "obj"
    THEN Raises("AttributeError: object has no attribute 'get'")
    ELSE LET v == json_get(result_data, Key.overall_score, JNum(0))
             issues == json_get(result_data, Key.issues, JArr(<<>>))
             overall_score == [kind |-> "float"] @@ Rat(v.n, v.d * 5)
         IN  IF ~py_number(v)
             THEN Raises("TypeError: unsupported operand type(s) for /")
             ELSE IF self.cls = "CriteriaEvaluator"
             THEN judged_result(overall_score, RLe(PassMark, overall_score),
                                result_data, Key.summary, "No summary provided",
                                [detailed_scores |-> json_get(result_data, Key.scores, JObj(<<>>, <<>>)),
                                 detailed_reasoning |-> json_get(result_data, Key.reasoning, JStr(<<>>)),
                                 criteria |-> self.criteria,
                                 model_used |-> self.provider \o ":" \o self.model])
             ELSE IF self.cls = "FactualConsistencyEvaluator"
             THEN IF RLe(PassMark, overall_score) /\ ~py_iterable(issues)
                  THEN Raises("TypeError: object has no len()")
                  ELSE judged_result(overall_score,
                                     RLe(PassMark, overall_score) /\ py_len(issues) <= 1,
                                     result_data, Key.reasoning, "No reasoning provided",
                                     [accuracy_score |-> json_get(result_data, Key.accuracy_score, JNull),
                                      completeness_score |-> json_get(result_data, Key.completeness_score, JNull),
                                      hallucination_score |-> json_get(result_data, Key.hallucination_score, JNull),
                                      identified_issues |-> issues,
                                      reference_text |-> expected])
             ELSE judged_result(overall_score, RLe(PassMark, overall_score),
                                result_data, Key.reasoning, "No reasoning provided",
                                [logic_score |-> json_get(result_data, Key.logic_score, JNull),
                                 clarity_score |-> json_get(result_data, Key.clarity_score, JNull),
                                 completeness_score |-> json_get(result_data, Key.completeness_score, JNull),
                                 accuracy_score |-> json_get(result_data, Key.accuracy_score, JNull),
                                 strengths |-> json_get(result_data, Key.strengths, JArr(<<>>)),
                                 weaknesses |-> json_get(result_data, Key.weaknesses, JArr(<<>>))])

\* a comparison whose tie passes only when the two side scores are equal
head_to_head_body_equal_tie(self, result_data, completion, alternative) ==
    IF result_data.t # "obj"
    THEN Raises("AttributeError: object has no attribute 'get'")
    ELSE LET winner == json_get(result_data, Key.winner, JStr(<<"T", "i", "e">>))
             a_score == json_get(result_data, Key.response_a_score, JNum(3))
             b_score == json_get(result_data, Key.response_b_score, JNum(3))
             c == json_get(result_data, Key.confidence, JNum(1))
             confidence == Rat(c.n, c.d * 5)
             metadata == [winner |-> winner,
                          confidence |-> confidence,
                          response_a_score |-> a_score,
                          response_b_score |-> json_get(result_data, Key.response_b_score, JNull),
                          alternative_response |-> alternative,
                          comparison_criteria |-> "overall quality"]
         IN  IF ~py_number(c)
             THEN Raises("TypeError: unsupported operand type(s) for /")
             ELSE IF py_eq(winner, JStr(<<"A">>))
             THEN judged_result(FloatScore(1, 1), TRUE, result_data, Key.reasoning,
                                "No reasoning provided", metadata)
             ELSE IF py_eq(winner, JStr(<<"B">>))
             THEN judged_result(FloatScore(0, 1), FALSE, result_data, Key.reasoning,
                                "No reasoning provided", metadata)
             ELSE IF ~py_number(a_score) \/ ~py_number(b_score)
             THEN Raises("TypeError: unsupported operand type(s) for -")
             ELSE judged_result(FloatScore(1, 2),
                                RLe(Rat(Abs(a_score.n * b_score.d - b_score.n * a_score.d),
                                        a_score.d * b_score.d),
                                    Rat(0, 1)),
                                result_data, Key.reasoning, "No reasoning provided", metadata)

\* the try body of HeadToHeadEvaluator after json.loads
head_to_head_body(self, result_data, completion, alternative) ==
    IF result_data.t # "obj"
    THEN Raises("AttributeError: object has no attribute 'get'")
    ELSE LET winner == json_get(result_data, Key.winner, JStr(<<"T", "i", "e">>))
             a_score == json_get(result_data, Key.response_a_score, JNum(3))
             b_score == json_get(result_data, Key.response_b_score, JNum(3))
             c == json_get(result_data, Key.confidence, JNum(1))
             confidence == Rat(c.n, c.d * 5)
             metadata == [winner |-> winner,
                          confidence |-> confidence,
                          response_a_score |-> a_score,
                          response_b_score |-> json_get(result_data, Key.response_b_score, JNull),
                          alternative_response |-> alternative,
                          comparison_criteria |-> "overall quality"]
         IN  IF ~py_number(c)
             THEN Raises("TypeError: unsupported operand type(s) for /")
             ELSE IF py_eq(winner, JStr(<<"A">>))
             THEN judged_result(FloatScore(1, 1), TRUE, result_data, Key.reasoning,
                                "No reasoning provided", metadata)
             ELSE IF py_eq(winner, JStr(<<"B">>))
             THEN judged_result(FloatScore(0, 1), FALSE, result_data, Key.reasoning,
                                "No reasoning provided", metadata)
             ELSE IF ~py_number(a_score) \/ ~py_number(b_score)
             THEN Raises("TypeError: unsupported operand type(s) for -")
             ELSE judged_result(FloatScore(1, 2),
                                RLe(Rat(Abs(a_score.n * b_score.d - b_score.n * a_score.d),
                                        a_score.d * b_score.d),
                                    Rat(1, 1)),
                                result_data, Key.reasoning, "No reasoning provided", metadata)

\* the try block: the call of the judge model, json.loads, and the body
judge_try(self, completion, expected, reply) ==
    LET parsed == json_loads(reply.text)
    IN  IF reply.kind = "error" THEN Raises(reply.msg)
        ELSE IF reply.kind = "none"
        THEN Raises("TypeError: the JSON object must be str, bytes or bytearray, not NoneType")
        ELSE IF ~parsed.ok THEN Raises("JSONDecodeError: " \o parsed.msg)
        ELSE IF self.cls = "HeadToHeadEvaluator"
        THEN head_to_head_body(self, parsed.val, completion, expected)
        ELSE rubric_body(self, parsed.val, completion, expected)

\* an evaluate without the except branch
judge_evaluate_uncaught(self, completion, expected, reply) ==
    LET called == call_model(self, <<self.cls, completion, expected>>, reply)
    IN  [out |-> judge_try(self, completion, expected, called.reply),
         requests |-> called.requests]

\* an evaluate that sends the request a second time when the first one fails
judge_evaluate_retrying(self, completion, expected, reply) ==
    LET called == call_model(self, <<self.cls, completion, expected>>, reply)
        tried == judge_try(self, completion, expected, called.reply)
    IN  [out |-> IF tried.raises THEN JudgeFailure(self, tried.msg) ELSE tried,
         requests |-> IF tried.raises THEN called.requests \o called.requests
                      ELSE called.requests]

\* evaluate of the four subclasses: what it returns and the requests it sent
judge_evaluate(self, completion, expected, reply) ==
    LET called == call_model(self, <<self.cls, completion, expected>>, reply)
        tried == judge_try(self, completion, expected, called.reply)
    IN  [out |-> IF tried.raises THEN JudgeFailure(self, tried.msg) ELSE tried,
         requests |-> called.requests]

----
\* self.evaluate(completion, expected), dispatched on the evaluator's class
evaluate(self, completion, expected) ==
    CASE self.name = "match" -> match_evaluate(self, completion, expected)
      [] self.name = "includes" -> includes_evaluate(self, completion, expected)
      [] self.name = "json_match" -> json_match_evaluate(self, completion, expected)
      [] self.name = "fuzzy_match" -> fuzzy_evaluate(self, completion, expected)
      [] self.name = "regex" -> regex_evaluate(self, completion, expected)

----
(* BaseEvaluator.batch_evaluate *)

\* the list comprehension over zip(completions, expected)
RECURSIVE batch_loop(_, _, _, _, _, _)
batch_loop(self, completions, expected, i, out, calls) ==
    IF i > Len(completions) \/ i > Len(expected)
    THEN [status |-> "returned", out |-> out, calls |-> calls, error |-> ""]
    ELSE LET r == evaluate(self, completions[i], expected[i])
             made == Append(calls, <<completions[i], expected[i]>>)
         IN  IF r.raises
             THEN [status |-> "raised", out |-> <<>>, calls |-> made, error |-> r.msg]
             ELSE batch_loop(self, completions, expected, i + 1,
                             Append(out, r.result), made)

\* a batch_evaluate without the length check: zip stops at the shorter list
batch_evaluate_unchecked(self, completions, expected) ==
    batch_loop(self, completions, expected, 1, <<>>, <<>>)

LengthError == "Completions and expected must have same length"

batch_evaluate(self, completions, expected) ==
    IF Len(completions) # Len(expected)
    THEN [status |-> "raised", out |-> <<>>, calls |-> <<>>, error |-> LengthError]
    ELSE batch_loop(self, completions, expected, 1, <<>>, <<>>)

----
(* EvaluationSuite *)

\* BaseEvaluator.name of the evaluators a suite holds, and of the keys of a
\* mapping handed to aggregate_results
Names == {"includes", "model_graded"}
AggNames == Names \cup {"fuzzy_match"}

\* a Python dict as a function; d.get(k) is None for a missing key
dict_get(d, k) == IF k \in DOMAIN d THEN d[k] ELSE None
dict_set(d, k, v) == [x \in DOMAIN d \cup {k} |-> IF x = k THEN v ELSE d[x]]
EmptyDict == <<>>

\* the except branch of run_suite
SuiteFailure(msg) ==
    EvalResult(FloatScore(0, 1), FALSE, "Evaluation failed: " \o msg, [error |-> msg])

RECURSIVE run_suite_loop(_, _, _, _, _, _)
run_suite_loop(evs, test_case, outs, i, res, called) ==
    IF i > Len(evs)
    THEN [results |-> res, called |-> called, status |-> "returned"]
    ELSE LET name == evs[i].name
             expected == dict_get(test_case, name)
         IN  IF expected # None
             THEN IF outs[i].raises
                  THEN run_suite_loop(evs, test_case, outs, i + 1,
                                      dict_set(res, name, SuiteFailure(outs[i].msg)),
                                      Append(called, i))
                  ELSE run_suite_loop(evs, test_case, outs, i + 1,
                                      dict_set(res, name, outs[i].result),
                                      Append(called, i))
             ELSE run_suite_loop(evs, test_case, outs, i + 1, res, called)

\* a run_suite without the try/except: the first exception ends the call
RECURSIVE run_suite_loop_no_catch(_, _, _, _, _, _)
run_suite_loop_no_catch(evs, test_case, outs, i, res, called) ==
    IF i > Len(evs)
    THEN [results |-> res, called |-> called, status |-> "returned"]
    ELSE LET name == evs[i].name
             expected == dict_get(test_case, name)
         IN  IF expected # None
             THEN IF outs[i].raises
                  THEN [results |-> EmptyDict, called |-> Append(called, i),
                        status |-> "raised"]
                  ELSE run_suite_loop_no_catch(evs, test_case, outs, i + 1,
                                               dict_set(res, name, outs[i].result),
                                               Append(called, i))
             ELSE run_suite_loop_no_catch(evs, test_case, outs, i + 1, res, called)

run_suite_no_catch(evs, test_case, outs) ==
    run_suite_loop_no_catch(evs, test_case, outs, 1, EmptyDict, <<>>)

run_suite(evs, test_case, outs) ==
    run_suite_loop(evs, test_case, outs, 1, EmptyDict, <<>>)

RECURSIVE SumNormalized(_, _)
SumNormalized(res, keys) ==
    IF keys = {} THEN FloatScore(0, 1)
    ELSE LET k == CHOOSE x \in keys : TRUE
         IN  [kind |-> "float"] @@ RAdd(normalized_score(res[k]), SumNormalized(res, keys \ {k}))

RECURSIVE SumRaw(_, _)
SumRaw(res, keys) ==
    IF keys = {} THEN FloatScore(0, 1)
    ELSE LET k == CHOOSE x \in keys : TRUE
             raw == IF res[k].score.kind = "nan" THEN FloatScore(0, 1) ELSE res[k].score
         IN  [kind |-> "float"] @@ RAdd(raw, SumRaw(res, keys \ {k}))

AggregateWith(res, avg_score, passed) ==
    EvalResult(avg_score, passed, "Average score, pass rate",
               [individual_results |-> res,
                pass_rate |-> Rat(Cardinality({k \in DOMAIN res : res[k].passed}),
                                  Cardinality(DOMAIN res)),
                total_evaluators |-> Cardinality(DOMAIN res)])

\* an aggregate_results that wants a strict majority
aggregate_results_strict(res) ==
    IF DOMAIN res = {}
    THEN EvalResult(FloatScore(0, 1), FALSE, "No results to aggregate", NoMetadata)
    ELSE LET n == Cardinality(DOMAIN res)
             passed_count == Cardinality({k \in DOMAIN res : res[k].passed})
             avg_score == [kind |-> "float"] @@ RDiv(SumNormalized(res, DOMAIN res), n)
         IN  AggregateWith(res, avg_score, RLt(Rat(1, 2), Rat(passed_count, n)))

\* an aggregate_results that takes its verdict from the average score
aggregate_results_by_score(res) ==
    IF DOMAIN res = {}
    THEN EvalResult(FloatScore(0, 1), FALSE, "No results to aggregate", NoMetadata)
    ELSE LET n == Cardinality(DOMAIN res)
             avg_score == [kind |-> "float"] @@ RDiv(SumNormalized(res, DOMAIN res), n)
         IN  AggregateWith(res, avg_score, RLe(Rat(1, 2), avg_score))

\* an aggregate_results that averages the raw scores
aggregate_results_raw(res) ==
    IF DOMAIN res = {}
    THEN EvalResult(FloatScore(0, 1), FALSE, "No results to aggregate", NoMetadata)
    ELSE LET n == Cardinality(DOMAIN res)
             passed_count == Cardinality({k \in DOMAIN res : res[k].passed})
             avg_score == [kind |-> "float"] @@ RDiv(SumRaw(res, DOMAIN res), n)
         IN  AggregateWith(res, avg_score, RLe(Rat(1, 2), Rat(passed_count, n)))

aggregate_results(res) ==
    IF DOMAIN res = {}
    THEN EvalResult(FloatScore(0, 1), FALSE, "No results to aggregate", NoMetadata)
    ELSE LET n == Cardinality(DOMAIN res)
             passed_count == Cardinality({k \in DOMAIN res : res[k].passed})
             avg_score == [kind |-> "float"] @@ RDiv(SumNormalized(res, DOMAIN res), n)
             pass_rate == Rat(passed_count, n)
         IN  EvalResult(avg_score, RLe(Rat(1, 2), pass_rate),
                        "Average score, pass rate",
                        [individual_results |-> res,
                         pass_rate |-> pass_rate,
                         total_evaluators |-> n])

----
(* Inputs *)

(* DatasetCreator *)

\* create_empty_dataset: the dict it returns
create_empty_dataset(name, description) ==
    [name |-> name,
     description |-> description,
     version |-> "1.0",
     created_by |-> "AI Evaluation Toolkit",
     eval_type |-> "custom",
     test_cases |-> <<>>,
     metadata |-> [total_cases |-> 0, categories |-> <<>>, difficulty_levels |-> <<>>]]

\* an add_test_case that numbers the test cases from 0
add_test_case_from_zero(ds, input_text, expected, category, difficulty, metadata) ==
    LET test_case == [id |-> Len(ds.test_cases),
                      input |-> input_text,
                      expected |-> expected,
                      category |-> category,
                      difficulty |-> difficulty,
                      metadata |-> IF metadata = None THEN <<>> ELSE metadata]
        test_cases == Append(ds.test_cases, test_case)
    IN  [ds EXCEPT !.test_cases = test_cases,
                   !.metadata.total_cases = Len(test_cases),
                   !.metadata.categories =
                       IF \E k \in 1..Len(@) : @[k] = category THEN @
                       ELSE Append(@, category),
                   !.metadata.difficulty_levels =
                       IF \E k \in 1..Len(@) : @[k] = difficulty THEN @
                       ELSE Append(@, difficulty)]

\* add_test_case: the dataset dict after the call, which changes it in place
add_test_case(ds, input_text, expected, category, difficulty, metadata) ==
    LET test_case == [id |-> Len(ds.test_cases) + 1,
                      input |-> input_text,
                      expected |-> expected,
                      category |-> category,
                      difficulty |-> difficulty,
                      metadata |-> IF metadata = None THEN <<>> ELSE metadata]
        test_cases == Append(ds.test_cases, test_case)
    IN  [ds EXCEPT !.test_cases = test_cases,
                   !.metadata.total_cases = Len(test_cases),
                   !.metadata.categories =
                       IF \E k \in 1..Len(@) : @[k] = category THEN @
                       ELSE Append(@, category),
                   !.metadata.difficulty_levels =
                       IF \E k \in 1..Len(@) : @[k] = difficulty THEN @
                       ELSE Append(@, difficulty)]

----

Subsets(S) == SUBSET S

\* test cases: a field is missing, present with value None, or present with a value
FieldValues == {None, "expected"}
TestCases == UNION {[S -> FieldValues] : S \in Subsets(Names)}

Evaluators == {[name |-> n] : n \in Names}

SuiteOutcomes ==
    { Raises("division by zero"),
      Returns(EvalResult(FloatScore(1, 1), TRUE, "Exact match", NoMetadata)),
      Returns(EvalResult(FloatScore(1, 2), FALSE, "Found 1/2", NoMetadata)) }

AggScores ==
    { BoolScore(TRUE), BoolScore(FALSE), FloatScore(0, 1), FloatScore(1, 1),
      FloatScore(-1, 2), FloatScore(1, 2), IntScore(5), NaNScore }

AggResults == {EvalResult(s, p, "", NoMetadata) : s \in AggScores, p \in BOOLEAN}
AggMappings == UNION {[S -> AggResults] : S \in Subsets(AggNames)}

VerdictScores == {FloatScore(0, 1), FloatScore(1, 2), FloatScore(1, 1)}
VerdictResults == {EvalResult(s, p, "", NoMetadata) : s \in VerdictScores, p \in BOOLEAN}
VerdictMappings == UNION {[S -> VerdictResults] : S \in Subsets(AggNames)}

\* strings, expected values and evaluators handed to batch_evaluate
Strs == {<<"a">>, <<"A", "b">>, <<" ", "b">>}
ExpectedValues ==
    {ExpStr(<<"a">>), ExpStr(<<"b", " ">>), ExpList(<<>>), ExpList(<<<<"a">>, <<"B">>>>)}
BatchEvaluators ==
    {MatchEvaluator(cs) : cs \in BOOLEAN} \cup {IncludesEvaluator(cs) : cs \in BOOLEAN}

\* the expected values an evaluator's signature admits: str for MatchEvaluator,
\* Union[str, List[str]] for IncludesEvaluator
ExpectedFor(self) ==
    IF self.name = "match" THEN {e \in ExpectedValues : e.t = "str"} ELSE ExpectedValues

\* JSON texts handed to JSONMatchEvaluator: objects, other values, broken texts
ValidJsonTexts ==
    { <<"{", "}">>,
      <<"{", "\"a\"", ":", "1", "}">>,
      <<"{", "\"a\"", ":", "1", ",", "\"b\"", ":", "2", "}">>,
      <<"{", "\"a\"", ":", "true", ",", "\"a\"", ":", "[", "1", "]", "}">>,
      <<"{", "\"a\"", ":", "true", "}">>,
      <<"[", "\"a\"", "]">>,
      <<"\"a\"">>,
      <<"1">>,
      <<"null">> }
InvalidJsonTexts ==
    { <<>>,
      <<"{", "\"a\"", ":", "1">>,
      <<"{", "\"a\"", "}">>,
      <<"[", "1", ",", "]">>,
      <<"{", "}", "1">>,
      <<"'a'">> }
JsonTexts == ValidJsonTexts \cup InvalidJsonTexts

JsonExpected ==
    {ExpText(t) : t \in JsonTexts}
        \cup {ExpDict(JObj(<<>>, <<>>)),
              ExpDict(JObj(<< <<"a">> >>, [k \in {<<"a">>} |-> JNum(1)]))}

JsonEvaluators ==
    {JSONMatchEvaluator(x, rk) : x \in BOOLEAN, rk \in {<<>>, << <<"a">> >>, << <<"a">>, <<"b">> >>}}

IncludesEvaluators == {IncludesEvaluator(cs) : cs \in BOOLEAN}

\* the required items handed to IncludesEvaluator.evaluate alone
IncludesExpected ==
    ExpectedValues
        \cup {ExpList(<< <<"a">> >>), ExpList(<< <<"b">>, <<"a">> >>),
              ExpList(<< <<"a">>, <<"B">>, <<"b">> >>)}

\* completions and expected strings handed to MatchEvaluator.evaluate alone
MatchStrs ==
    {<<>>, <<"a">>, <<"A">>, <<" ", "a", " ">>, <<"a", "b">>, <<"A", "b">>, <<" ">>}

\* thresholds (80.0 is the default), completions and expected strings handed to
\* FuzzyMatchEvaluator
Thresholds == {Rat(80, 1), Rat(50, 1), Rat(161, 2)}
FuzzyStrs ==
    {<<>>, <<" ">>, <<"a", "b">>, <<"a", "b", "b">>, <<" ", "a", "b">>, <<"b", "a">>}

\* the judge evaluators, their providers and models
JudgeClasses ==
    {"CriteriaEvaluator", "FactualConsistencyEvaluator", "ChainOfThoughtEvaluator",
     "HeadToHeadEvaluator"}
SupportedProviders == {"openai", "anthropic"}
JudgeEvaluators ==
    {JudgeObject(cls, "gpt-4", provider) : cls \in JudgeClasses, provider \in SupportedProviders}

\* response texts of the judge model: rubric objects, comparison objects, JSON
\* values that are no object, texts that are no JSON
JudgeTexts ==
    { <<"{", "\"overall_score\"", ":", "3", "}">>,
      <<"{", "\"overall_score\"", ":", "2", "}">>,
      <<"{", "\"overall_score\"", ":", "5", ",", "\"issues\"", ":", "[", "\"a\"", ",", "\"b\"", "]", "}">>,
      <<"{", "\"overall_score\"", ":", "5", ",", "\"issues\"", ":", "[", "\"a\"", "]", "}">>,
      <<"{", "\"overall_score\"", ":", "2.9", "}">>,
      <<"{", "\"overall_score\"", ":", "4", ",", "\"reasoning\"", ":", "\"a\"", ",", "\"summary\"", ":", "\"b\"", "}">>,
      <<"{", "\"overall_score\"", ":", "7", "}">>,
      <<"{", "}">>,
      <<"{", "\"overall_score\"", ":", "\"a\"", "}">>,
      <<"{", "\"overall_score\"", ":", "5", ",", "\"issues\"", ":", "null", "}">>,
      <<"{", "\"overall_score\"", ":", "2", ",", "\"issues\"", ":", "null", "}">>,
      <<"{", "\"winner\"", ":", "\"A\"", "}">>,
      <<"{", "\"winner\"", ":", "\"B\"", ",", "\"response_a_score\"", ":", "5", ",", "\"response_b_score\"", ":", "1", "}">>,
      <<"{", "\"winner\"", ":", "\"Tie\"", ",", "\"response_a_score\"", ":", "4", ",", "\"response_b_score\"", ":", "3", "}">>,
      <<"{", "\"winner\"", ":", "\"Tie\"", ",", "\"response_a_score\"", ":", "4", ",", "\"response_b_score\"", ":", "1", "}">>,
      <<"{", "\"response_a_score\"", ":", "5", "}">>,
      <<"{", "\"winner\"", ":", "\"A\"", ",", "\"confidence\"", ":", "\"a\"", "}">>,
      <<"{", "\"winner\"", ":", "\"Tie\"", ",", "\"response_a_score\"", ":", "\"a\"", ",", "\"response_b_score\"", ":", "3", "}">>,
      <<"{", "\"winner\"", ":", "\"Tie\"", ",", "\"response_a_score\"", ":", "4", ",", "\"response_b_score\"", ":", "2.9", "}">>,
      <<"[", "1", "]">>,
      <<"\"a\"">>,
      <<"null">>,
      <<>>,
      <<"{", "\"overall_score\"", ":", "3">>,
      <<"{", "}", "{", "}">> }
JudgeReplies ==
    {ReplyError("APIConnectionError: Connection error."), ReplyNone}
        \cup {ReplyText(text) : text \in JudgeTexts}

\* the arguments of the constructor calls
Patterns == {<<"a">>, <<"a", "*", "b">>, <<".">>, <<"*", "a">>, <<"a", "*", "*">>}
Providers == SupportedProviders \cup {"cohere"}
ObjectReplies ==
    {ReplyError("APIConnectionError: Connection error."),
     ReplyText(<<"{", "\"overall_score\"", ":", "3", "}">>),
     ReplyText(<<"{", "\"winner\"", ":", "\"A\"", "}">>)}

\* completions and expected values that fit an evaluator's kind
CallsFor(self) ==
    CASE self.name = "includes" ->
             {[completion |-> <<"a">>, expected |-> e] :
                 e \in {ExpStr(<<"a">>), ExpList(<< <<"a">>, <<"B">> >>)}}
      [] self.name = "fuzzy_match" ->
             {[completion |-> <<"a", "b">>, expected |-> ExpStr(e)] :
                 e \in {<<"a", "b">>, <<"b", "a">>}}
      [] self.name = "json_match" ->
             {[completion |-> <<"{", "\"a\"", ":", "1", "}">>, expected |-> ExpText(e)] :
                 e \in {<<"{", "\"a\"", ":", "1", "}">>, <<"{", "}">>}}
      [] self.name = "regex" ->
             {[completion |-> c, expected |-> ExpStr(<<>>)] : c \in {<<"a">>, <<"b", " ">>}}
      [] OTHER -> {}

NoCall == [completion |-> <<>>, expected |-> ExpStr(<<>>)]

SeqsUpTo(S, n) == UNION {[1..k -> S] : k \in 0..n}

NoEvaluator == [name |-> "", eval_type |-> "", case_sensitive |-> FALSE]
NoArgs == [completions |-> <<>>, expected |-> <<>>]

NoCtorArgs ==
    [cls |-> "", pattern |-> <<>>, flags |-> 0, model |-> "", provider |-> "",
     api_key |-> FALSE, options |-> <<>>]

NoResult == EvalResult(FloatScore(0, 1), FALSE, "", NoMetadata)

\* no evaluate call kept, no dataset created yet
NoKept == [valid |-> FALSE, self |-> NoEvaluator, args |-> NoCall, out |-> Returns(NoResult)]
NoDataset == [create_empty_dataset("", "") EXCEPT !.version = ""]
NoPrev == [valid |-> FALSE, flags |-> EmptyDict, passed |-> FALSE, score |-> FloatScore(0, 1)]

PassFlags(res) == [k \in DOMAIN res |-> res[k].passed]

----
(* State machine *)

Init ==
    /\ evaluators = <<>>
    /\ suite_status = "idle"
    /\ suite_case = EmptyDict
    /\ suite_outs = <<>>
    /\ suite_called = <<>>
    /\ results = EmptyDict
    /\ suite_evs = <<>>
    /\ agg_status = "idle"
    /\ agg_in = EmptyDict
    /\ agg_out = NoResult
    /\ agg_prev = NoPrev
    /\ batch_status = "idle"
    /\ batch_self = NoEvaluator
    /\ batch_args = NoArgs
    /\ batch_calls = <<>>
    /\ batch_out = <<>>
    /\ batch_error = ""
    /\ ev_status = "idle"
    /\ ev_self = NoEvaluator
    /\ ev_args = NoCall
    /\ ev_out = Returns(NoResult)
    /\ ev_reply = ReplyNone
    /\ ev_requests = <<>>
    /\ objects = {}
    /\ ctor_status = "idle"
    /\ ctor_args = NoCtorArgs
    /\ ctor_out = Constructed(NoEvaluator)
    /\ ev_prev = NoKept
    /\ dataset = NoDataset

\* an add_evaluator that keeps names unique: the new evaluator replaces the
\* registered ones of its name
add_evaluator_replacing(evaluator) ==
    /\ Len(evaluators) < MaxEvaluators
    /\ evaluators' = Append(SelectSeq(evaluators, LAMBDA e : e.name # evaluator.name),
                            evaluator)
    /\ UNCHANGED <<suite_status, suite_case, suite_outs, suite_called, results, suite_evs>>
    /\ UNCHANGED <<aggVars, batchVars, evVars, ctorVars, callerVars>>

add_evaluator(evaluator) ==
    /\ Len(evaluators) < MaxEvaluators
    /\ evaluators' = Append(evaluators, evaluator)
    /\ UNCHANGED <<suite_status, suite_case, suite_outs, suite_called, results, suite_evs>>
    /\ UNCHANGED <<aggVars, batchVars, evVars, ctorVars, callerVars>>

RunSuite(test_case, outs) ==
    /\ suite_status = "idle"
    /\ \E r \in {run_suite(evaluators, test_case, outs)} :
           /\ suite_status' = r.status
           /\ results' = r.results
           /\ suite_called' = r.called
    /\ suite_case' = test_case
    /\ suite_outs' = outs
    /\ suite_evs' = evaluators
    /\ UNCHANGED evaluators
    /\ UNCHANGED <<aggVars, batchVars, evVars, ctorVars, callerVars>>

\* results = suite.run_suite(...); aggregate = suite.aggregate_results(results)
AggregateSuite ==
    /\ suite_status = "returned"
    /\ agg_status = "idle"
    /\ agg_status' = "returned"
    /\ agg_in' = results
    /\ agg_out' = aggregate_results(results)
    /\ UNCHANGED agg_prev
    /\ UNCHANGED <<suiteVars, batchVars, evVars, ctorVars, callerVars>>

\* the caller is done with the returned mapping and verdict
SuiteDone ==
    /\ suite_status # "idle"
    /\ suite_status' = "idle"
    /\ suite_case' = EmptyDict
    /\ suite_outs' = <<>>
    /\ suite_called' = <<>>
    /\ results' = EmptyDict
    /\ suite_evs' = <<>>
    /\ agg_status' = "idle"
    /\ agg_in' = EmptyDict
    /\ agg_out' = NoResult
    /\ UNCHANGED <<evaluators, agg_prev>>
    /\ UNCHANGED <<batchVars, evVars, ctorVars, callerVars>>

Aggregate(res) ==
    /\ agg_status = "idle"
    /\ agg_status' = "returned"
    /\ agg_in' = res
    /\ agg_out' = aggregate_results(res)
    /\ UNCHANGED agg_prev
    /\ UNCHANGED <<suiteVars, batchVars, evVars, ctorVars, callerVars>>

\* the caller is done with the aggregate
AggregateDone ==
    /\ agg_status = "returned"
    /\ agg_status' = "idle"
    /\ agg_in' = EmptyDict
    /\ agg_out' = NoResult
    /\ UNCHANGED agg_prev
    /\ UNCHANGED <<suiteVars, batchVars, evVars, ctorVars, callerVars>>

\* the caller keeps the pass flags it handed in and the verdict it got, to
\* compare them with the next call's
AggregateKeep ==
    /\ agg_status = "returned"
    /\ agg_status' = "idle"
    /\ agg_prev' = [valid |-> TRUE, flags |-> PassFlags(agg_in),
                    passed |-> agg_out.passed, score |-> agg_out.score]
    /\ agg_in' = EmptyDict
    /\ agg_out' = NoResult
    /\ UNCHANGED <<suiteVars, batchVars, evVars, ctorVars, callerVars>>

BatchEvaluate(self, completions, expected) ==
    /\ batch_status = "idle"
    /\ \E r \in {batch_evaluate(self, completions, expected)} :
           /\ batch_status' = r.status
           /\ batch_out' = r.out
           /\ batch_calls' = r.calls
           /\ batch_error' = r.error
    /\ batch_self' = self
    /\ batch_args' = [completions |-> completions, expected |-> expected]
    /\ UNCHANGED <<suiteVars, aggVars, evVars, ctorVars, callerVars>>

\* the caller is done with the returned list, or has handled the exception
BatchDone ==
    /\ batch_status # "idle"
    /\ batch_status' = "idle"
    /\ batch_self' = NoEvaluator
    /\ batch_args' = NoArgs
    /\ batch_calls' = <<>>
    /\ batch_out' = <<>>
    /\ batch_error' = ""
    /\ UNCHANGED <<suiteVars, aggVars, evVars, ctorVars, callerVars>>

\* an evaluate that leaves a mark on its evaluator: the call rewrites the
\* evaluator's kind
Evaluate_marking(self, completion, expected) ==
    /\ ev_status = "idle"
    /\ ev_self' = self
    /\ ev_args' = [completion |-> completion, expected |-> expected]
    /\ ev_out' = evaluate(self, completion, expected)
    /\ ev_status' = IF ev_out'.raises THEN "raised" ELSE "returned"
    /\ ev_reply' = ReplyNone
    /\ ev_requests' = <<>>
    /\ objects' = (objects \ {self}) \cup {[self EXCEPT !.eval_type = "custom"]}
    /\ UNCHANGED <<ctor_status, ctor_args, ctor_out>>
    /\ UNCHANGED <<suiteVars, aggVars, batchVars, callerVars>>

\* one call of self.evaluate(completion, expected)
Evaluate(self, completion, expected) ==
    /\ ev_status = "idle"
    /\ ev_self' = self
    /\ ev_args' = [completion |-> completion, expected |-> expected]
    /\ ev_out' = evaluate(self, completion, expected)
    /\ ev_status' = IF ev_out'.raises THEN "raised" ELSE "returned"
    /\ ev_reply' = ReplyNone
    /\ ev_requests' = <<>>
    /\ UNCHANGED <<suiteVars, aggVars, batchVars, ctorVars, callerVars>>

\* the caller is done with the result, or has handled the exception
EvaluateDone ==
    /\ ev_status # "idle"
    /\ ev_status' = "idle"
    /\ ev_self' = NoEvaluator
    /\ ev_args' = NoCall
    /\ ev_out' = Returns(NoResult)
    /\ ev_reply' = ReplyNone
    /\ ev_requests' = <<>>
    /\ UNCHANGED <<suiteVars, aggVars, batchVars, ctorVars, callerVars>>

\* the caller keeps the call and its outcome, to compare them with a later call
EvaluateKeep ==
    /\ ev_status # "idle"
    /\ ev_prev' = [valid |-> TRUE, self |-> ev_self, args |-> ev_args, out |-> ev_out]
    /\ ev_status' = "idle"
    /\ ev_self' = NoEvaluator
    /\ ev_args' = NoCall
    /\ ev_out' = Returns(NoResult)
    /\ ev_reply' = ReplyNone
    /\ ev_requests' = <<>>
    /\ UNCHANGED dataset
    /\ UNCHANGED <<suiteVars, aggVars, batchVars, ctorVars>>

\* one call of evaluate on a judge evaluator, during which the judge model
\* answers with reply
JudgeEvaluate(self, completion, expected, reply) ==
    /\ ev_status = "idle"
    /\ \E r \in {judge_evaluate(self, completion, expected, reply)} :
           /\ ev_out' = r.out
           /\ ev_requests' = r.requests
           /\ ev_status' = IF r.out.raises THEN "raised" ELSE "returned"
    /\ ev_self' = self
    /\ ev_args' = [completion |-> completion, expected |-> expected]
    /\ ev_reply' = reply
    /\ UNCHANGED <<suiteVars, aggVars, batchVars, ctorVars, callerVars>>

\* a constructor call ends: the caller holds the new object, or an exception
Construct(args, out) ==
    /\ ctor_status = "idle"
    /\ ev_status = "idle"
    /\ out.raises \/ out.obj \in objects \/ Cardinality(objects) < MaxObjects
    /\ ctor_args' = args
    /\ ctor_out' = out
    /\ ctor_status' = IF out.raises THEN "raised" ELSE "returned"
    /\ objects' = IF out.raises THEN objects ELSE objects \cup {out.obj}
    /\ UNCHANGED <<suiteVars, aggVars, batchVars, evVars, callerVars>>

\* RegexEvaluator(pattern, flags)
ConstructRegex(pattern, flags) ==
    Construct([NoCtorArgs EXCEPT !.cls = "RegexEvaluator", !.pattern = pattern,
                                 !.flags = flags],
              RegexEvaluator(pattern, flags))

\* cls(model=model, provider=provider) for a judge evaluator class
ConstructJudge(cls, model, provider, api_key) ==
    Construct([NoCtorArgs EXCEPT !.cls = cls, !.model = model, !.provider = provider,
                                 !.api_key = api_key],
              ModelGradedEvaluator(cls, model, provider, api_key))

\* MatchEvaluator(...), IncludesEvaluator(...), FuzzyMatchEvaluator(...) and
\* JSONMatchEvaluator(...): the constructor stores its options in the new
\* object obj and cannot fail
ConstructPlain(obj) ==
    Construct([NoCtorArgs EXCEPT
                  !.cls = obj.name,
                  !.options = [k \in DOMAIN obj \ {"name", "eval_type"} |-> obj[k]]],
              Constructed(obj))

ConstructDone ==
    /\ ctor_status # "idle"
    /\ ctor_status' = "idle"
    /\ ctor_args' = NoCtorArgs
    /\ ctor_out' = Constructed(NoEvaluator)
    /\ UNCHANGED objects
    /\ UNCHANGED <<suiteVars, aggVars, batchVars, evVars, callerVars>>

\* dataset = creator.create_empty_dataset(name, description)
CreateEmptyDataset(name, description) ==
    /\ dataset' = create_empty_dataset(name, description)
    /\ UNCHANGED ev_prev
    /\ UNCHANGED <<suiteVars, aggVars, batchVars, evVars, ctorVars>>

\* creator.add_test_case(dataset, input_text, expected, category, difficulty)
AddTestCase(input_text, expected, category, difficulty) ==
    /\ dataset # NoDataset
    /\ Len(dataset.test_cases) < MaxCases
    /\ dataset' = add_test_case(dataset, input_text, expected, category, difficulty, None)
    /\ UNCHANGED ev_prev
    /\ UNCHANGED <<suiteVars, aggVars, batchVars, evVars, ctorVars>>

\* results[name] = r, done by the caller on the dict run_suite returned after
\* aggregate_results was given that dict: the aggregate's metadata holds the
\* dict itself under "individual_results", no copy of it
StoreResult(name, r) ==
    /\ suite_status = "returned"
    /\ agg_status = "returned"
    /\ "individual_results" \in DOMAIN agg_out.metadata
    /\ agg_out.metadata.individual_results = results
    /\ IF name \in DOMAIN results THEN results[name] # r ELSE TRUE
    /\ results' = dict_set(results, name, r)
    /\ agg_out' = [agg_out EXCEPT !.metadata.individual_results = results']
    /\ UNCHANGED <<evaluators, suite_status, suite_case, suite_outs, suite_called, suite_evs>>
    /\ UNCHANGED <<agg_status, agg_in, agg_prev>>
    /\ UNCHANGED <<batchVars, evVars, ctorVars, callerVars>>

\* expected.append(item), done by the caller on the list it passed to
\* IncludesEvaluator.evaluate: the result's metadata holds that list itself
\* under "expected_items"
ExtendExpected(item) ==
    /\ ev_status = "returned"
    /\ ev_self.name = "includes"
    /\ ev_args.expected.t = "list"
    /\ ev_out.result.metadata.expected_items = ev_args.expected.l
    /\ ev_out' = [ev_out EXCEPT !.result.metadata.expected_items = Append(@, item)]
    /\ UNCHANGED <<ev_status, ev_self, ev_args, ev_reply, ev_requests>>
    /\ UNCHANGED <<suiteVars, aggVars, batchVars, ctorVars, callerVars>>

NextSuite ==
    \/ \E e \in Evaluators : add_evaluator(e)
    \/ \E tc \in TestCases :
          \E outs \in [1..Len(evaluators) -> SuiteOutcomes] : RunSuite(tc, outs)
    \/ AggregateSuite
    \/ SuiteDone

SpecSuite == Init /\ [][NextSuite]_vars

NextAggregate ==
    \/ \E res \in AggMappings : Aggregate(res)
    \/ AggregateDone

SpecAggregate == Init /\ [][NextAggregate]_vars

NextVerdict ==
    \/ \E res \in VerdictMappings : Aggregate(res)
    \/ AggregateKeep

SpecVerdict == Init /\ [][NextVerdict]_vars

NextBatch ==
    \/ \E self \in BatchEvaluators :
          \E completions \in SeqsUpTo(Strs, MaxBatch) :
            \E expected \in SeqsUpTo(ExpectedFor(self), MaxBatch) :
              BatchEvaluate(self, completions, expected)
    \/ BatchDone

SpecBatch == Init /\ [][NextBatch]_vars

NextEvaluate ==
    \/ \E self \in JsonEvaluators :
          \E completion \in JsonTexts :
            \E expected \in JsonExpected : Evaluate(self, completion, expected)
    \/ \E self \in IncludesEvaluators :
          \E completion \in Strs :
            \E expected \in IncludesExpected : Evaluate(self, completion, expected)
    \/ \E self \in {FuzzyMatchEvaluator(threshold) : threshold \in Thresholds} :
          \E completion \in FuzzyStrs :
            \E expected \in FuzzyStrs : Evaluate(self, completion, ExpStr(expected))
    \/ \E self \in {MatchEvaluator(cs) : cs \in BOOLEAN} :
          \E completion \in MatchStrs :
            \E expected \in MatchStrs : Evaluate(self, completion, ExpStr(expected))
    \/ EvaluateDone

SpecEvaluate == Init /\ [][NextEvaluate]_vars

NextJudge ==
    \/ \E self \in JudgeEvaluators :
          \E reply \in JudgeReplies : JudgeEvaluate(self, <<"a">>, ExpStr(<<"b">>), reply)
    \/ EvaluateDone

SpecJudge == Init /\ [][NextJudge]_vars

\* evaluators are constructed, and evaluate is called on the constructed ones
NextConstruct ==
    \/ \E pattern \in Patterns : \E flags \in {0, IGNORECASE} : ConstructRegex(pattern, flags)
    \/ \E cls \in {"CriteriaEvaluator", "HeadToHeadEvaluator"} :
          \E provider \in Providers :
            \E api_key \in BOOLEAN : ConstructJudge(cls, "gpt-4", provider, api_key)
    \/ ConstructDone
    \/ \E self \in objects :
          /\ ctor_status = "idle"
          /\ self.name = "regex"
          /\ \E completion \in Strs : Evaluate(self, completion, ExpStr(<<>>))
    \/ \E self \in objects :
          /\ ctor_status = "idle"
          /\ self.name = "model_graded"
          /\ \E reply \in ObjectReplies : JudgeEvaluate(self, <<"a">>, ExpStr(<<"b">>), reply)
    \/ EvaluateDone

SpecConstruct == Init /\ [][NextConstruct]_vars

NextDataset ==
    \/ \E name \in {"Security", "Reasoning"} : CreateEmptyDataset(name, "")
    \/ \E category \in {"general", "imported", "math"} :
          \E difficulty \in {"medium", "hard"} :
            AddTestCase("input", "expected", category, difficulty)

SpecDataset == Init /\ [][NextDataset]_vars

\* a caller that keeps using the objects it passed in and got back
NextCaller ==
    \/ add_evaluator([name |-> "includes"])
    \/ \E tc \in TestCases :
          \E outs \in [1..Len(evaluators) -> SuiteOutcomes] : RunSuite(tc, outs)
    \/ AggregateSuite
    \/ \E r \in {outs.result : outs \in {o \in SuiteOutcomes : ~o.raises}} :
          StoreResult("fuzzy_match", r)
    \/ SuiteDone
    \/ /\ evaluators = <<>>
       /\ \E self \in IncludesEvaluators :
            \E expected \in {e \in IncludesExpected : e.t = "list"} :
              Evaluate(self, <<"a">>, expected)
    \/ ExtendExpected(<<"b">>)
    \/ EvaluateDone

SpecCaller == Init /\ [][NextCaller]_vars

\* evaluator objects are constructed once and then used over and over: by
\* evaluate, by batch_evaluate, and by a suite they are registered with
NextFrozen ==
    \/ \E obj \in {IncludesEvaluator(FALSE), FuzzyMatchEvaluator(Rat(80, 1)),
                   JSONMatchEvaluator(FALSE, << <<"a">> >>)} : ConstructPlain(obj)
    \/ ConstructRegex(<<"a">>, 0)
    \/ ConstructJudge("CriteriaEvaluator", "gpt-4", "anthropic", TRUE)
    \/ ConstructDone
    \/ \E self \in objects :
          /\ ctor_status = "idle" /\ batch_status = "idle" /\ suite_status = "idle"
          /\ \E call \in CallsFor(self) : Evaluate(self, call.completion, call.expected)
    \/ \E self \in objects :
          /\ ctor_status = "idle" /\ batch_status = "idle" /\ suite_status = "idle"
          /\ self.name = "model_graded"
          /\ \E reply \in ObjectReplies : JudgeEvaluate(self, <<"a">>, ExpStr(<<"b">>), reply)
    \/ EvaluateKeep
    \/ EvaluateDone
    \/ \E self \in objects :
          /\ ctor_status = "idle" /\ ev_status = "idle" /\ suite_status = "idle"
          /\ \E c, d \in CallsFor(self) :
                BatchEvaluate(self, <<c.completion, d.completion>>, <<c.expected, d.expected>>)
    \/ BatchDone
    \/ \E self \in objects :
          /\ ctor_status = "idle" /\ ev_status = "idle" /\ batch_status = "idle"
          /\ suite_status = "idle"
          /\ \A i \in 1..Len(evaluators) : evaluators[i] # self
          /\ add_evaluator(self)
    \/ /\ ctor_status = "idle" /\ ev_status = "idle" /\ batch_status = "idle"
       /\ evaluators # <<>>
       /\ \E tc \in {t \in TestCases : DOMAIN t \subseteq {"includes"}} :
            RunSuite(tc, [i \in 1..Len(evaluators) |->
                            IF evaluators[i].name = "includes"
                            THEN evaluate(evaluators[i], <<"a">>, ExpStr(<<"a">>))
                            ELSE Returns(NoResult)])
    \/ SuiteDone

SpecFrozen == Init /\ [][NextFrozen]_vars

----
(* Claims about EvaluationSuite.run_suite *)

SuiteIdx == 1..Len(suite_evs)
Called(i) == \E k \in 1..Len(suite_called) : suite_called[k] = i
FieldOf(i) == dict_get(suite_case, suite_evs[i].name)

IsFailedResult(r, msg) ==
    /\ r.score = FloatScore(0, 1)
    /\ r.passed = FALSE
    /\ "error" \in DOMAIN r.metadata
    /\ r.metadata["error"] = msg

\* once an evaluator has raised, the evaluators registered after it are still called
LaterStillCalled ==
    \A i, j \in SuiteIdx :
        (Called(i) /\ suite_outs[i].raises /\ i < j /\ FieldOf(j) # None) => Called(j)

\* C1 as stated: the call returns, the evaluators after a raising one are still
\* called, the slot of every raising evaluator holds a failed result and the
\* slot of every other called evaluator holds what its evaluate returned.
C1_AsStated ==
    /\ suite_status # "raised"
    /\ suite_status = "returned" =>
         /\ LaterStillCalled
         /\ \A i \in SuiteIdx :
               Called(i) =>
                 /\ suite_evs[i].name \in DOMAIN results
                 /\ IF suite_outs[i].raises
                    THEN IsFailedResult(results[suite_evs[i].name], suite_outs[i].msg)
                    ELSE results[suite_evs[i].name] = suite_outs[i].result

LastCalled(n) ==
    CHOOSE i \in SuiteIdx :
        /\ Called(i) /\ suite_evs[i].name = n
        /\ \A j \in SuiteIdx : (Called(j) /\ suite_evs[j].name = n) => j <= i

\* C1 amended: the call returns, the evaluators after a raising one are still
\* called, and the slot of a name holds the outcome of the last called
\* evaluator of that name: a failed result (score 0.0, passed false, error
\* text in metadata) if it raised, what its evaluate returned otherwise.
C1_FailureIsolation ==
    /\ suite_status # "raised"
    /\ suite_status = "returned" =>
         /\ LaterStillCalled
         /\ DOMAIN results = {suite_evs[i].name : i \in {j \in SuiteIdx : Called(j)}}
         /\ \A n \in DOMAIN results :
               LET i == LastCalled(n)
               IN  IF suite_outs[i].raises
                   THEN IsFailedResult(results[n], suite_outs[i].msg)
                   ELSE results[n] = suite_outs[i].result

\* a raising evaluator followed by a returning one of another name: both slots filled
C1_Witness ==
    /\ suite_status = "returned"
    /\ \E i, j \in SuiteIdx :
         /\ i < j /\ Called(i) /\ Called(j)
         /\ suite_evs[i].name # suite_evs[j].name
         /\ suite_outs[i].raises /\ ~suite_outs[j].raises
         /\ IsFailedResult(results[suite_evs[i].name], suite_outs[i].msg)
         /\ results[suite_evs[j].name] = suite_outs[j].result

\* C2 as stated: the mapping has an entry for a name iff an evaluator of that
\* name is registered and the test case has a field of that name, whatever
\* the field's value; exactly the evaluators whose field is present are called.
C2_SkipRule ==
    suite_status = "returned" =>
        /\ \A n \in Names :
              n \in DOMAIN results <=>
                  ((\E i \in SuiteIdx : suite_evs[i].name = n) /\ n \in DOMAIN suite_case)
        /\ \A i \in SuiteIdx : Called(i) <=> suite_evs[i].name \in DOMAIN suite_case

\* registration only appends: nothing registered is removed or replaced
OnlyGrows ==
    evaluators' # evaluators =>
        /\ Len(evaluators') = Len(evaluators) + 1
        /\ SubSeq(evaluators', 1, Len(evaluators)) = evaluators

RegisteredNames == {suite_evs[i].name : i \in SuiteIdx}

LastRegistered(n) ==
    CHOOSE i \in SuiteIdx :
        /\ suite_evs[i].name = n
        /\ \A j \in SuiteIdx : suite_evs[j].name = n => j <= i

\* the slot of every name in the mapping holds the outcome of the
\* last-registered evaluator of that name
KeepsLastRegistered ==
    \A n \in DOMAIN results :
        LET i == LastRegistered(n)
        IN  /\ n \in RegisteredNames
            /\ IF suite_outs[i].raises
               THEN IsFailedResult(results[n], suite_outs[i].msg)
               ELSE results[n] = suite_outs[i].result

----
(* Claims about EvaluationSuite.aggregate_results and EvalResult.normalized_score *)

AggCount == Cardinality(DOMAIN agg_in)
AggPassed == Cardinality({k \in DOMAIN agg_in : agg_in[k].passed})

C4_VerdictIgnoresScores ==
    (agg_status = "returned" /\ agg_prev.valid /\ agg_prev.flags = PassFlags(agg_in))
        => agg_out.passed = agg_prev.passed

\* all scores 0 and most flags true, after a call with the same flags and another average
C4_Witness ==
    /\ agg_status = "returned" /\ agg_prev.valid
    /\ agg_prev.flags = PassFlags(agg_in)
    /\ agg_prev.score # agg_out.score
    /\ AggCount = 3 /\ AggPassed = 2
    /\ \A k \in DOMAIN agg_in : agg_in[k].score = FloatScore(0, 1)
    /\ agg_out.passed

InUnitInterval(x) ==
    x.kind = "float" /\ RLe(FloatScore(0, 1), x) /\ RLe(x, FloatScore(1, 1))

\* C5: the aggregate score is 0 for an empty mapping and otherwise the mean of
\* the normalized scores, and it lies in [0,1].
C5_AggregateScore ==
    agg_status = "returned" =>
        /\ InUnitInterval(agg_out.score)
        /\ IF AggCount = 0
           THEN agg_out.score = FloatScore(0, 1)
           ELSE LET sum == SumNormalized(agg_in, DOMAIN agg_in)
                IN  agg_out.score.num * sum.den * AggCount = sum.num * agg_out.score.den

\* raw scores below 0 and above 1 averaged into the inside of [0,1]
C5_Witness ==
    /\ agg_status = "returned"
    /\ \E k \in DOMAIN agg_in : agg_in[k].score = FloatScore(-1, 2)
    /\ \E k \in DOMAIN agg_in : agg_in[k].score = IntScore(5)
    /\ RLt(FloatScore(0, 1), agg_out.score) /\ RLt(agg_out.score, FloatScore(1, 1))

\* C6: normalized_score of every result lies in [0,1]; a bool gives 1 or 0, a
\* number below 0 gives 0, above 1 gives 1, inside [0,1] gives itself.
C6_NormalizedScore ==
    \A k \in DOMAIN agg_in :
        LET s == agg_in[k].score
            ns == normalized_score(agg_in[k])
        IN  /\ InUnitInterval(ns)
            /\ s.kind = "bool" => ns = FloatScore(s.num, 1)
            /\ (s.kind \in {"int", "float"} /\ s.num < 0) => ns = FloatScore(0, 1)
            /\ (s.kind \in {"int", "float"} /\ s.num > s.den) => ns = FloatScore(1, 1)
            /\ (s.kind \in {"int", "float"} /\ 0 <= s.num /\ s.num <= s.den)
                   => ns = FloatScore(s.num, s.den)

\* a negative score, a score above 1 and a NaN in one mapping, each normalized
C6_Witness ==
    /\ agg_status = "returned"
    /\ \E k \in DOMAIN agg_in :
         agg_in[k].score = FloatScore(-1, 2) /\ normalized_score(agg_in[k]) = FloatScore(0, 1)
    /\ \E k \in DOMAIN agg_in :
         agg_in[k].score = IntScore(5) /\ normalized_score(agg_in[k]) = FloatScore(1, 1)
    /\ \E k \in DOMAIN agg_in : agg_in[k].score = NaNScore

----
(* Claims about BaseEvaluator.batch_evaluate *)

BatchN == Len(batch_args.completions)

\* C7: with sequences of different lengths batch_evaluate fails with the
\* length error and makes no evaluate call.
C7_LengthCheckFirst ==
    (batch_status # "idle" /\ Len(batch_args.completions) # Len(batch_args.expected)) =>
        /\ batch_status = "raised"
        /\ batch_error = LengthError
        /\ batch_calls = <<>>
        /\ batch_out = <<>>

\* two completions against one expected value: rejected, nothing evaluated
C7_Witness ==
    /\ batch_status = "raised"
    /\ Len(batch_args.completions) = 2 /\ Len(batch_args.expected) = 1
    /\ batch_error = LengthError
    /\ batch_calls = <<>>

\* C8 as stated: with sequences of equal length n batch_evaluate returns a list
\* of n results, the i-th being evaluate(completions[i], expected[i]).
C8_PairedResults ==
    (batch_status # "idle" /\ Len(batch_args.completions) = Len(batch_args.expected)) =>
        /\ batch_status = "returned"
        /\ Len(batch_out) = BatchN
        /\ Len(batch_calls) = BatchN
        /\ \A i \in 1..BatchN :
              /\ batch_calls[i] = <<batch_args.completions[i], batch_args.expected[i]>>
              /\ batch_out[i] =
                    evaluate(batch_self, batch_args.completions[i], batch_args.expected[i]).result

----
(* Claims about the deterministic evaluators' error handling *)

IsJsonCall == ev_status # "idle" /\ ev_self.name = "json_match"

\* a returned, failed, zero-score result whose metadata is the one entry `key`
FailedUnder(out, key) ==
    /\ ~out.raises
    /\ out.result.score = FloatScore(0, 1)
    /\ out.result.passed = FALSE
    /\ DOMAIN out.result.metadata = {key}
    /\ out.result.metadata[key] # ""

\* C9: JSONMatchEvaluator.evaluate returns a failed result with a parse_error
\* entry when the completion is not valid JSON (also when expected is not
\* either), and one with an expected_parse_error entry when only the expected
\* text is not valid JSON; it raises in neither case.
C9_ParseErrorsAreResults ==
    IsJsonCall =>
        /\ ev_args.completion \in InvalidJsonTexts => FailedUnder(ev_out, "parse_error")
        /\ (/\ ev_args.completion \in ValidJsonTexts
            /\ ev_args.expected.t = "str"
            /\ ev_args.expected.text \in InvalidJsonTexts)
               => FailedUnder(ev_out, "expected_parse_error")

\* an unterminated completion and a broken expected text: the completion's error
C9_Witness ==
    /\ IsJsonCall
    /\ ev_args.completion = <<"{", "\"a\"", ":", "1">>
    /\ ev_args.expected = ExpText(<<"[", "1", ",", "]">>)
    /\ ev_status = "returned"
    /\ FailedUnder(ev_out, "parse_error")

\* a candidate or expected value that is JSON but no object, or an empty list
\* of required substrings
MalformedStructure ==
    \/ /\ IsJsonCall
       /\ ev_args.completion \in ValidJsonTexts
       /\ \/ json_loads(ev_args.completion).val.t # "obj"
          \/ /\ ev_args.expected.t = "str"
             /\ ev_args.expected.text \in ValidJsonTexts
             /\ json_loads(ev_args.expected.text).val.t # "obj"
    \/ /\ ev_status # "idle"
       /\ ev_self.name = "includes"
       /\ ev_args.expected = ExpList(<<>>)

\* C10 as stated: evaluate never raises, and on malformed structure it returns
\* a failed zero-score result with diagnostic text.
C10_NeverRaises ==
    /\ ev_status # "raised"
    /\ MalformedStructure =>
         /\ ev_out.result.score = FloatScore(0, 1)
         /\ ev_out.result.passed = FALSE
         /\ ev_out.result.reasoning # ""

----
(* Claims about JSONMatchEvaluator on two objects *)

CandData == json_loads(ev_args.completion).val
ExpData ==
    IF ev_args.expected.t = "str" THEN json_loads(ev_args.expected.text).val
    ELSE ev_args.expected.data

\* the call was given an object candidate and an object expected
BothObjects ==
    /\ IsJsonCall
    /\ ev_args.completion \in ValidJsonTexts
    /\ ev_args.expected.t = "str" => ev_args.expected.text \in ValidJsonTexts
    /\ CandData.t = "obj"
    /\ ExpData.t = "obj"

RequiredIdx == 1..Len(ev_self.required_keys)
RequiredPresent ==
    Cardinality({i \in RequiredIdx : ev_self.required_keys[i] \in DOMAIN CandData.members})
ExpectedMatched ==
    Cardinality({k \in DOMAIN ExpData.members :
                    /\ k \in DOMAIN CandData.members
                    /\ py_eq(CandData.members[k], ExpData.members[k])})
PartialDenominator == Cardinality(DOMAIN ExpData.members) + Len(ev_self.required_keys)

\* C11: in partial mode the score is 1.0 when |expected keys| + |required_keys|
\* is 0 and otherwise (matched expected keys + present required keys) over
\* that sum; passed iff score >= 0.8 and no required key is missing.
C11_PartialScore ==
    (BothObjects /\ ~ev_self.exact_match) =>
        LET score == ev_out.result.score
        IN  /\ ev_status = "returned"
            /\ score.kind = "float"
            /\ IF PartialDenominator = 0
               THEN score = FloatScore(1, 1)
               ELSE score.num * PartialDenominator
                        = (ExpectedMatched + RequiredPresent) * score.den
            /\ ev_out.result.passed <=>
                  (5 * score.num >= 4 * score.den /\ RequiredPresent = Len(ev_self.required_keys))

\* {"a":1} against {"a":1,"b":2} with required_keys ["a"]: 2/3, not passed
C11_Witness ==
    /\ ev_status = "returned"
    /\ ev_self = JSONMatchEvaluator(FALSE, << <<"a">> >>)
    /\ ev_args.completion = <<"{", "\"a\"", ":", "1", "}">>
    /\ ev_args.expected = ExpText(<<"{", "\"a\"", ":", "1", ",", "\"b\"", ":", "2", "}">>)
    /\ ev_out.result.score = FloatScore(2, 3)
    /\ ev_out.result.passed = FALSE

\* C12: in exact mode passed holds iff the candidate equals the expected value
\* (Python ==, keys in any order) and every required key is in the candidate;
\* the score is 1.0 when passed and 0.0 otherwise; a candidate with an extra
\* key or a missing required key does not pass.
C12_ExactMode ==
    (BothObjects /\ ev_self.exact_match) =>
        /\ ev_status = "returned"
        /\ ev_out.result.passed <=>
              (py_eq(CandData, ExpData) /\ RequiredPresent = Len(ev_self.required_keys))
        /\ ev_out.result.score =
              (IF ev_out.result.passed THEN FloatScore(1, 1) ELSE FloatScore(0, 1))
        /\ DOMAIN CandData.members # DOMAIN ExpData.members => ~ev_out.result.passed
        /\ RequiredPresent < Len(ev_self.required_keys) => ~ev_out.result.passed

\* equal objects, but a required key is missing: not passed, score 0.0
C12_Witness ==
    /\ ev_status = "returned"
    /\ ev_self = JSONMatchEvaluator(TRUE, << <<"a">>, <<"b">> >>)
    /\ ev_args.completion = <<"{", "\"a\"", ":", "1", "}">>
    /\ ev_args.expected = ExpText(<<"{", "\"a\"", ":", "1", "}">>)
    /\ ev_out.result.passed = FALSE
    /\ ev_out.result.score = FloatScore(0, 1)

----
(* Claims about MatchEvaluator and IncludesEvaluator *)

IsMatchCall == ev_status # "idle" /\ ev_self.name = "match"

\* trim, then fold the case unless the evaluator is case-sensitive
Normal(s) == IF ev_self.case_sensitive THEN strip(s) ELSE lower(strip(s))

\* C13: MatchEvaluator passes exactly when the two strings are equal after
\* trimming and, unless case-sensitive, case folding; the score is 1.0 on a
\* pass and 0.0 otherwise. A non-empty string matches itself in
\* case-insensitive mode, and in case-sensitive mode two strings that differ
\* only in letter case do not match.
C13_MatchRule ==
    IsMatchCall =>
        LET c == ev_args.completion
            e == ev_args.expected.s
            r == ev_out.result
        IN  /\ ev_status = "returned"
            /\ r.passed <=> (Normal(c) = Normal(e))
            /\ r.score = IF r.passed THEN FloatScore(1, 1) ELSE FloatScore(0, 1)
            /\ (~ev_self.case_sensitive /\ c # <<>> /\ c = e) => r.passed
            /\ (ev_self.case_sensitive /\ c # e /\ lower(c) = lower(e)) => ~r.passed

C13_Witness ==
    /\ ev_status = "returned"
    /\ ev_self = MatchEvaluator(TRUE)
    /\ ev_args.completion = <<"A", "b">>
    /\ ev_args.expected = ExpStr(<<"a", "b">>)
    /\ ~ev_out.result.passed
    /\ ev_out.result.score = FloatScore(0, 1)

IsIncludesCall == ev_status # "idle" /\ ev_self.name = "includes"

\* the required items of the call: a single string is a one-element list
RequiredItems ==
    IF ev_args.expected.t = "str" THEN <<ev_args.expected.s>> ELSE ev_args.expected.l

\* item i occurs in the completion, compared case-folded unless case-sensitive
Occurs(item, completion) ==
    IF ev_self.case_sensitive
    THEN str_contains(item, completion)
    ELSE str_contains(lower(item), lower(completion))

FoundCount(items, completion) ==
    Cardinality({i \in 1..Len(items) : Occurs(items[i], completion)})

\* C14: for a non-empty required list IncludesEvaluator scores the number of
\* required items found as substrings of the completion over the number of
\* required items, and passes exactly when all of them are found.
C14_IncludesScore ==
    (IsIncludesCall /\ RequiredItems # <<>>) =>
        LET n == Len(RequiredItems)
            found == FoundCount(RequiredItems, ev_args.completion)
            r == ev_out.result
        IN  /\ ev_status = "returned"
            /\ r.score.kind = "float"
            /\ r.score.num * n = found * r.score.den
            /\ r.passed <=> (found = n)

C14_Witness ==
    /\ ev_status = "returned"
    /\ ev_self = IncludesEvaluator(FALSE)
    /\ ev_args.completion = <<"a">>
    /\ ev_args.expected = ExpList(<< <<"a">>, <<"B">> >>)
    /\ ev_out.result.score = FloatScore(1, 2)
    /\ ~ev_out.result.passed

\* the call before the last item was added to the required list
ShorterList == SubSeq(RequiredItems, 1, Len(RequiredItems) - 1)
ShorterCall == evaluate(ev_self, ev_args.completion, ExpList(ShorterList))

\* the call is IncludesEvaluator on a list whose last item occurs in the completion
AddedFoundItem ==
    /\ IsIncludesCall
    /\ ev_args.expected.t = "list"
    /\ RequiredItems # <<>>
    /\ Occurs(RequiredItems[Len(RequiredItems)], ev_args.completion)

\* C15: for any required list R and an item x that occurs in the completion,
\* the score on R + [x] is at least the score on R.
C15_Monotone ==
    AddedFoundItem =>
        /\ ev_status = "returned"
        /\ ~ShorterCall.raises
        /\ RLe(ShorterCall.result.score, ev_out.result.score)

\* the same comparison where the score on R exists, that is for non-empty R
C15_MonotoneNonEmpty ==
    (AddedFoundItem /\ ShorterList # <<>>) =>
        /\ ev_status = "returned"
        /\ ~ShorterCall.raises
        /\ RLe(ShorterCall.result.score, ev_out.result.score)

----
(* Claims about FuzzyMatchEvaluator *)

IsFuzzyCall == ev_status # "idle" /\ ev_self.name = "fuzzy_match"

\* C16: FuzzyMatchEvaluator computes the ratio, a number from 0 to 100, of the
\* two trimmed strings, scores ratio/100 and passes exactly when the ratio is
\* at least the threshold; a non-empty string compared with itself has
\* similarity 100 and score 1.0.
C16_FuzzyRule ==
    IsFuzzyCall =>
        LET c == ev_args.completion
            e == ev_args.expected.s
            r == ev_out.result
            similarity == r.metadata.similarity_score
        IN  /\ ev_status = "returned"
            /\ similarity \in 0..100
            /\ similarity = ratio(strip(c), strip(e))
            /\ r.score.num * 100 = similarity * r.score.den
            /\ r.passed <=> (similarity * ev_self.threshold.den >= ev_self.threshold.num)
            /\ (c # <<>> /\ c = e) => (similarity = 100 /\ r.score = FloatScore(1, 1))

C16_Witness ==
    /\ ev_status = "returned"
    /\ ev_self = FuzzyMatchEvaluator(Rat(80, 1))
    /\ ev_args.completion = <<" ", "a", "b">>
    /\ ev_args.expected = ExpStr(<<"a", "b", "b">>)
    /\ ev_out.result.metadata.similarity_score = 80
    /\ ev_out.result.score = FloatScore(4, 5)
    /\ ev_out.result.passed

----
(* Claims about the construction of evaluators *)

\* the arguments of the constructor call name an invalid pattern or a provider
\* that is not supported
InvalidArgs(args) ==
    \/ args.cls = "RegexEvaluator" /\ ~re_compile(args.pattern, args.flags).ok
    \/ args.cls \in JudgeClasses /\ args.provider \notin SupportedProviders

ValidObject(o) ==
    /\ o.name = "regex" => re_compile(o.pattern, o.flags).ok
    /\ o.name = "model_graded" => o.provider \in SupportedProviders

\* C17: a constructor called with an invalid pattern or an unsupported provider
\* raises and leaves no object behind, so every evaluator object that exists,
\* and every object evaluate runs on, has a valid pattern or a supported provider.
C17_ConstructionErrors ==
    /\ (ctor_status # "idle" /\ InvalidArgs(ctor_args)) => ctor_status = "raised"
    /\ \A o \in objects : ValidObject(o)
    /\ ev_status # "idle" => (ev_self \in objects /\ ValidObject(ev_self))

C17_Witness ==
    /\ ctor_status = "raised"
    /\ ctor_args.cls = "RegexEvaluator"
    /\ ctor_args.pattern = <<"*", "a">>
    /\ ctor_out.msg = "re.error: nothing to repeat"
    /\ objects # {}

----
(* Claims about the judge evaluators *)

IsJudgeCall == ev_status # "idle" /\ ev_self.name = "model_graded"

\* what json.loads makes of the reply's text
ReplyParse == json_loads(ev_reply.text)
IsStructured == ev_reply.kind = "text" /\ ReplyParse.ok /\ ReplyParse.val.t = "obj"
ReplyData == ReplyParse.val

IsFailedJudgement(r) ==
    /\ r.score = FloatScore(0, 1)
    /\ ~r.passed
    /\ "error" \in DOMAIN r.metadata

\* C18: when the call of the judge model fails, or its response is not the
\* text of one JSON object, each of the four judge evaluators returns a result
\* with score 0.0, passed false and the error text in the metadata, and raises
\* nothing.
C18_JudgeFailureConversion ==
    (IsJudgeCall /\ ~IsStructured) =>
        /\ ev_status = "returned"
        /\ IsFailedJudgement(ev_out.result)
        /\ ev_reply.kind = "error" => ev_out.result.metadata.error = ev_reply.msg

C18_Witness ==
    /\ ev_status = "returned"
    /\ ev_self.cls = "HeadToHeadEvaluator"
    /\ ev_reply.kind = "text"
    /\ ev_reply.text = <<"[", "1", "]">>
    /\ IsFailedJudgement(ev_out.result)

\* the structured reply lacks a field the evaluator reads
OmitsReadField ==
    /\ IsStructured
    /\ IF ev_self.cls = "HeadToHeadEvaluator"
       THEN \E key \in {Key.winner, Key.response_a_score, Key.response_b_score} :
                key \notin DOMAIN ReplyData.members
       ELSE Key.overall_score \notin DOMAIN ReplyData.members

\* C19: a structured judge response that lacks a field the evaluator reads is
\* turned into a failed result: score 0.0, passed false, error text in metadata.
C19_MissingFieldsFail ==
    (IsJudgeCall /\ OmitsReadField) =>
        /\ ev_status = "returned"
        /\ IsFailedJudgement(ev_out.result)

IsRubricCall ==
    /\ IsJudgeCall
    /\ ev_self.cls \in {"CriteriaEvaluator", "FactualConsistencyEvaluator",
                        "ChainOfThoughtEvaluator"}

\* the reply is an object whose overall_score is a number and whose issues,
\* if there are any, are a list
HasRubricScore ==
    /\ IsStructured
    /\ Key.overall_score \in DOMAIN ReplyData.members
    /\ ReplyData.members[Key.overall_score].t = "num"
    /\ Key.issues \in DOMAIN ReplyData.members => ReplyData.members[Key.issues].t = "arr"

IssueCount ==
    IF Key.issues \in DOMAIN ReplyData.members
    THEN Len(ReplyData.members[Key.issues].items)
    ELSE 0

\* C20: a rubric evaluator given a structured response with overall_score v
\* scores v/5 and passes exactly when v >= 3; FactualConsistencyEvaluator
\* passes only if, in addition, the response lists at most one issue.
C20_RubricPassPolicy ==
    (IsRubricCall /\ HasRubricScore) =>
        LET v == ReplyData.members[Key.overall_score]
            r == ev_out.result
        IN  /\ ev_status = "returned"
            /\ r.score.kind = "float"
            /\ r.score.num * 5 * v.d = v.n * r.score.den
            /\ r.passed <=>
                  /\ v.n >= 3 * v.d
                  /\ ev_self.cls = "FactualConsistencyEvaluator" => IssueCount <= 1

C20_Witness ==
    /\ ev_status = "returned"
    /\ ev_self.cls = "FactualConsistencyEvaluator"
    /\ IsStructured
    /\ ReplyData.members = [k \in {Key.overall_score, Key.issues} |->
                               IF k = Key.overall_score THEN JNum(5)
                               ELSE JArr(<<JStr(<<"a">>), JStr(<<"b">>)>>)]
    /\ ev_out.result.score = FloatScore(1, 1)
    /\ ~ev_out.result.passed

IsComparisonCall == IsJudgeCall /\ ev_self.cls = "HeadToHeadEvaluator"

\* the reply names a winner out of A, B and Tie, gives two numeric side
\* scores when the winner is Tie, and its confidence and reasoning, if there
\* are any, are a number and a string
NamesWinner ==
    /\ IsStructured
    /\ Key.winner \in DOMAIN ReplyData.members
    /\ ReplyData.members[Key.winner].t = "str"
    /\ ReplyData.members[Key.winner].s \in {<<"A">>, <<"B">>, <<"T", "i", "e">>}
    /\ ReplyData.members[Key.winner].s = <<"T", "i", "e">> =>
          \A key \in {Key.response_a_score, Key.response_b_score} :
              /\ key \in DOMAIN ReplyData.members
              /\ ReplyData.members[key].t = "num"
    /\ Key.confidence \in DOMAIN ReplyData.members =>
          ReplyData.members[Key.confidence].t = "num"
    /\ Key.reasoning \in DOMAIN ReplyData.members =>
          ReplyData.members[Key.reasoning].t = "str"

\* C21: HeadToHeadEvaluator maps winner A to score 1.0 and passed true, winner
\* B to score 0.0 and passed false, and winner Tie to score 0.5 with passed
\* exactly when the two side scores differ by at most 1 (4 and 3 pass, 4 and
\* 1 do not).
C21_HeadToHeadMapping ==
    (IsComparisonCall /\ NamesWinner) =>
        LET winner == ReplyData.members[Key.winner].s
            r == ev_out.result
        IN  /\ ev_status = "returned"
            /\ winner = <<"A">> => r.score = FloatScore(1, 1) /\ r.passed
            /\ winner = <<"B">> => r.score = FloatScore(0, 1) /\ ~r.passed
            /\ winner = <<"T", "i", "e">> =>
                  LET a == ReplyData.members[Key.response_a_score]
                      b == ReplyData.members[Key.response_b_score]
                  IN  /\ r.score = FloatScore(1, 2)
                      /\ r.passed <=> Abs(a.n * b.d - b.n * a.d) <= a.d * b.d
                      /\ (a = JNum(4) /\ b = JNum(3)) => r.passed
                      /\ (a = JNum(4) /\ b = JNum(1)) => ~r.passed

C21_Witness ==
    /\ IsComparisonCall
    /\ NamesWinner
    /\ ReplyData.members[Key.winner].s = <<"T", "i", "e">>
    /\ ReplyData.members[Key.response_a_score] = JNum(4)
    /\ ReplyData.members[Key.response_b_score] = JNum(3)
    /\ ev_out.result.score = FloatScore(1, 2)
    /\ ev_out.result.passed

\* C22: every evaluate call of a judge evaluator sends exactly one request to
\* the judge model, with temperature 0, to the evaluator's provider and model;
\* when the request fails the evaluator returns the failed result and has sent
\* no second request.
C22_OneRequestNoRetry ==
    IsJudgeCall =>
        /\ Len(ev_requests) = 1
        /\ ev_requests[1].temperature = 0
        /\ ev_requests[1].provider = ev_self.provider
        /\ ev_requests[1].model = ev_self.model
        /\ ev_reply.kind = "error" =>
              /\ ev_status = "returned"
              /\ IsFailedJudgement(ev_out.result)

C22_Witness ==
    /\ IsJudgeCall
    /\ ev_reply.kind = "error"
    /\ ev_status = "returned"
    /\ IsFailedJudgement(ev_out.result)
    /\ Len(ev_requests) = 1

\* the reply is an object with a numeric overall_score
ReportsNumber ==
    /\ IsStructured
    /\ Key.overall_score \in DOMAIN ReplyData.members
    /\ ReplyData.members[Key.overall_score].t = "num"

\* C26: for every structured response with a numeric overall_score, the score
\* of the result a rubric evaluator returns lies in [0, 1].
C26_RubricScoreInUnitInterval ==
    (IsRubricCall /\ ReportsNumber /\ ev_status = "returned") =>
        /\ RLe(Rat(0, 1), ev_out.result.score)
        /\ RLe(ev_out.result.score, Rat(1, 1))

Has(key) == key \in DOMAIN ReplyData.members

\* a side score of the comparison, 3 when the reply has none
SideScore(key) == IF Has(key) THEN ReplyData.members[key] ELSE JNum(3)

\* the reply names no winner or names Tie, and the fields it has are of the
\* types the prompt asks for
TieByDefault ==
    /\ IsStructured
    /\ Has(Key.winner) => ReplyData.members[Key.winner] = JStr(<<"T", "i", "e">>)
    /\ \A key \in {Key.response_a_score, Key.response_b_score, Key.confidence} :
          Has(key) => ReplyData.members[key].t = "num"
    /\ Has(Key.reasoning) => ReplyData.members[Key.reasoning].t = "str"

\* C27: a structured response without overall_score is scored by the rubric
\* evaluators as overall_score 0 (score 0.0, passed false, no error); a
\* HeadToHead response without a winner is a Tie and a missing side score
\* counts as 3, so the empty object gives score 0.5 and passed true and no
\* failed result.
C27_DefaultsOnMissingFields ==
    /\ (IsRubricCall /\ IsStructured /\ ~Has(Key.overall_score)) =>
          /\ ev_status = "returned"
          /\ ev_out.result.score = FloatScore(0, 1)
          /\ ~ev_out.result.passed
          /\ (\A key \in {Key.reasoning, Key.summary} :
                 Has(key) => ReplyData.members[key].t = "str")
                => "error" \notin DOMAIN ev_out.result.metadata
    /\ (IsComparisonCall /\ TieByDefault) =>
          LET a == SideScore(Key.response_a_score)
              b == SideScore(Key.response_b_score)
          IN  /\ ev_status = "returned"
              /\ ev_out.result.score = FloatScore(1, 2)
              /\ ev_out.result.passed <=> Abs(a.n * b.d - b.n * a.d) <= a.d * b.d
              /\ "error" \notin DOMAIN ev_out.result.metadata
              /\ DOMAIN ReplyData.members = {} => ev_out.result.passed

C27_Witness ==
    /\ IsComparisonCall
    /\ IsStructured
    /\ DOMAIN ReplyData.members = {}
    /\ ev_status = "returned"
    /\ ev_out.result.score = FloatScore(1, 2)
    /\ ev_out.result.passed
    /\ "error" \notin DOMAIN ev_out.result.metadata

----
(* Claims relating the two modes of JSONMatchEvaluator *)

\* the same call on the same evaluator configuration in the other mode
OtherMode(exact_match) ==
    evaluate([ev_self EXCEPT !.exact_match = exact_match], ev_args.completion, ev_args.expected)

\* C28: whenever JSONMatchEvaluator in exact mode passes, the same candidate,
\* expected value and required_keys in partial mode give score 1.0 and passed
\* true.
C28_ExactImpliesPartial ==
    (IsJsonCall /\ ev_self.exact_match /\ ev_status = "returned" /\ ev_out.result.passed) =>
        /\ BothObjects
        /\ ~OtherMode(FALSE).raises
        /\ OtherMode(FALSE).result.score = FloatScore(1, 1)
        /\ OtherMode(FALSE).result.passed

\* an exact-mode pass with a required key, and, for the converse, a candidate
\* with an extra key that passes partial mode and fails exact mode
C28_Witness ==
    /\ IsJsonCall
    /\ ev_self.exact_match
    /\ ev_self.required_keys = << <<"a">> >>
    /\ ev_status = "returned"
    /\ ev_out.result.passed
    /\ OtherMode(FALSE).result.passed
    /\ LET self == JSONMatchEvaluator(FALSE, << <<"a">> >>)
           completion == <<"{", "\"a\"", ":", "1", ",", "\"b\"", ":", "2", "}">>
           expected == ExpText(<<"{", "\"a\"", ":", "1", "}">>)
       IN  /\ evaluate(self, completion, expected).result.passed
           /\ evaluate(self, completion, expected).result.score = FloatScore(1, 1)
           /\ ~evaluate([self EXCEPT !.exact_match = TRUE], completion, expected).result.passed

----
(* Claims about DatasetCreator *)

CaseIdx == 1..Len(dataset.test_cases)

\* the position of the first x in the list s
FirstAt(s, x) == CHOOSE k \in 1..Len(s) : s[k] = x /\ \A j \in 1..(k - 1) : s[j] # x

\* the list c holds exactly the distinct values of the list s, each once, in
\* the order in which they first appear in s
DistinctInOrderOf(c, s) ==
    /\ \A i, j \in 1..Len(c) : i # j => c[i] # c[j]
    /\ {c[i] : i \in 1..Len(c)} = {s[k] : k \in 1..Len(s)}
    /\ \A i, j \in 1..Len(c) : i < j => FirstAt(s, c[i]) < FirstAt(s, c[j])

\* C29: in a dataset made by create_empty_dataset and any number of
\* add_test_case calls, metadata.total_cases is the number of test cases, the
\* test case at position k has id k, and metadata.categories and
\* metadata.difficulty_levels hold exactly the distinct categories and
\* difficulties of the test cases, each once, in order of first appearance.
C29_DatasetBookkeeping ==
    dataset # NoDataset =>
        /\ dataset.metadata.total_cases = Len(dataset.test_cases)
        /\ \A k \in CaseIdx : dataset.test_cases[k].id = k
        /\ DistinctInOrderOf(dataset.metadata.categories,
                             [k \in CaseIdx |-> dataset.test_cases[k].category])
        /\ DistinctInOrderOf(dataset.metadata.difficulty_levels,
                             [k \in CaseIdx |-> dataset.test_cases[k].difficulty])

\* three test cases, the third in the category of the first
C29_Witness ==
    /\ dataset # NoDataset
    /\ Len(dataset.test_cases) = 3
    /\ [k \in CaseIdx |-> dataset.test_cases[k].category] = <<"math", "general", "math">>
    /\ dataset.metadata.categories = <<"math", "general">>
    /\ dataset.metadata.total_cases = 3
    /\ dataset.test_cases[3].id = 3

----
(* Claims about the EvalResult records a caller holds *)

\* C24: a result record does not change once constructed: as long as a caller
\* holds the result of an evaluate call or the aggregate of an
\* aggregate_results call, its score, reasoning, metadata and passed fields
\* stay what they were, the results embedded in the aggregate's metadata and
\* the lists in the metadata included.
C24_ResultImmutable ==
    [][/\ (agg_status = "returned" /\ agg_status' = "returned") => agg_out' = agg_out
       /\ (ev_status = "returned" /\ ev_status' = "returned") => ev_out' = ev_out]_vars

----
(* Claims about the evaluator objects *)

\* an evaluate, batch_evaluate or run_suite call starts or ends
CallStep ==
    \/ ev_status' # ev_status
    \/ batch_status' # batch_status
    \/ suite_status' # suite_status

IsDeterministic(self) == self.name # "model_graded"

====
